---------------------------- MODULE Spec2Model ----------------------------
(***************************************************************************)
(* A model of bootimage: its execution harness and its image builder.      *)
(*                                                                         *)
(*  - run() of src/src/run.rs: the argv of the emulator, one emulator      *)
(*    process, raced against the test timeout, and the decoding of its     *)
(*    exit status (Spec).                                                  *)
(*  - test() of src/src/subcommand/test.rs: the suite runner that builds   *)
(*    every test-* binary, runs them in parallel and reports (SuiteSpec).  *)
(*  - create_disk_image() of src/src/builder/disk_image.rs: llvm-objcopy   *)
(*    and the padding to the block size (DiskSpec).                        *)
(*  - the scan of the build output for the bootloader executable in        *)
(*    create_bootimage() of src/src/builder/mod.rs (ArtifactSpec).         *)
(*  - BuildConfig::from_metadata() of src/src/builder/bootloader.rs        *)
(*    (MetaSpec).                                                          *)
(*                                                                         *)
(* An Option<T> of the source is modelled as a set with at most one        *)
(* element: {} is None and {v} is Some(v).                                 *)
(***************************************************************************)
EXTENDS Integers, Sequences, FiniteSets, TLC

\* Raw exit codes range over 0..MaxExitCode.
MaxExitCode == 7

\* A suite holds at most MaxTests test targets.
MaxTests == 2

VARIABLES
    \* ---- run() (src/src/run.rs) ----
    is_test,                  \* the is_test parameter
    test_success_exit_code,   \* config.test_success_exit_code: Option<i32>
    config,                   \* config: run_command, test_no_reboot, test_args, run_args
    runner_args,              \* args.runner_args: Option<Vec<String>>
    run_command,              \* the run_command local: the argv of the emulator
    pc,                       \* the position of run()
    child,                    \* the emulator process, as the OS sees it
    exit_status,              \* the ExitStatus of the process: its code()
    wait_result,              \* what child.wait_timeout returned
    ops,                      \* the calls run() has made on the child, in order
    ret,                      \* the value run() returned
    \* ---- test() (src/src/subcommand/test.rs) ----
    s_n,                      \* the number of test targets of the kernel package
    s_phase,                  \* the position of test()
    s_built,                  \* test_targets: how many tests were built and pushed
    s_pc,                     \* per test: the position of its closure in the parallel map
    s_cmd,                    \* per test: the argv its emulator was spawned with
    s_child,                  \* per test: its emulator process, as the OS sees it
    s_wait,                   \* per test: what child.wait_timeout returned
    s_exit,                   \* per test: the ExitStatus::code() of its emulator
    s_out,                    \* per test: what its guest wrote to the serial port
    s_verdict,                \* per test: the TestResult of the closure
    s_error,                  \* per test: the ErrorMessage of the closure
    files,                    \* the file system: path -> content
    s_full,                   \* rayon's while_some flag: an Err item was seen
    s_saved_error,            \* rayon's saved_error: the first error seen
    s_outOfOrder,             \* history: some test finished before an earlier one
    s_tests,                  \* the collected Vec<(String, TestResult)>
    s_report,                 \* the lines written after "The following tests failed:"
    s_result,                 \* what test() returned
    \* ---- create_disk_image() (src/src/builder/disk_image.rs) ----
    d_pc,                     \* the position of create_disk_image()
    image,                    \* the file at output_bin_path: Option of its length
    objcopy_len,              \* history: the length of the file llvm-objcopy wrote
    file_size,                \* the file_size local of pad_to_nearest_block_size
    d_ret,                    \* what create_disk_image() returned
    llvm_tools,               \* the llvm-tools-preview installation, as LlvmTools::new sees it
    objcopy_output,           \* the Output of llvm-objcopy: Option of status and stderr
    d_ops,                    \* history: the steps create_disk_image() has made
    \* ---- the artifact resolution of create_bootimage() (src/src/builder/mod.rs) ----
    a_pc,                     \* the position of the artifact resolution
    stdout_lines,             \* output.stdout of the build with --message-format json, by line
    line_no,                  \* the line the for loop is at
    bootloader_elf_path,      \* the bootloader_elf_path local: Option<PathBuf>
    a_ret,                    \* what the artifact resolution returned
    \* ---- BuildConfig::from_metadata() (src/src/builder/bootloader.rs) ----
    m_pc,                     \* the position of from_metadata()
    project_metadata,         \* the cargo metadata: packages, resolve, target_directory
    cargo_toml,               \* the Cargo.toml at bootloader_pkg.manifest_path
    kernel_pkg,               \* the kernel_pkg local, once found
    bootloader_pkg,           \* the bootloader_pkg local, once found
    binary_feature,           \* the binary_feature local
    build_config,             \* the BuildConfig that was returned
    m_ret,                    \* what from_metadata() returned
    ambient_env,              \* the environment of the bootimage process
    bootloader_cmd,           \* the Command that build_command() returned
    \* ---- create_iso_image() (src/src/builder/disk_image.rs) ----
    i_pc,                     \* the position of create_iso_image()
    i_args,                   \* its arguments: bin_name and the size of the bootloader ELF
    isodir,                   \* the path isodir: absent, a directory, or a file
    grub_dir,                 \* whether isodir/boot/grub exists
    grub_cfg,                 \* the menu entry in isodir/boot/grub/grub.cfg, if the file exists
    kernel_elf,               \* the size of isodir/boot/kernel.elf, if the file exists
    iso,                      \* the size of the file at output_bin_path, if it exists
    mkrescue_output,          \* the Output of grub-mkrescue: Option of status, stderr, bytes written
    i_ret,                    \* what the running call has returned
    i_rets,                   \* history: what the earlier calls returned
    i_at_call,                \* history: isodir and grub_dir when the running call started
    \* ---- Builder and its project_metadata field (src/src/builder/mod.rs) ----
    builders,                 \* the Builder instances: Option of manifest_path and project_metadata
    workspace_version,        \* the state of the project that cargo metadata reads
    c_hist,                   \* history, per Builder: the calls to project_metadata()
    c_ret,                    \* per Builder: what its last public call returned
    \* ---- create_bootimage() (src/src/builder/mod.rs) ----
    b_pc,                     \* the position of create_bootimage()
    b_steps,                  \* history: the steps of create_bootimage() that returned, in order
    b_ret                     \* what create_bootimage() returned

argVars == <<config, runner_args, run_command>>

runVars == <<is_test, test_success_exit_code, argVars, pc, child, exit_status, wait_result, ops, ret>>

suiteVars == <<s_n, s_phase, s_built, s_pc, s_cmd, s_child, s_wait, s_exit, s_out, s_verdict, s_error,
               files, s_full, s_saved_error, s_outOfOrder, s_tests, s_report, s_result>>

diskVars == <<d_pc, image, objcopy_len, file_size, d_ret, llvm_tools, objcopy_output, d_ops>>

artifactVars == <<a_pc, stdout_lines, line_no, bootloader_elf_path, a_ret>>

envVars == <<ambient_env, bootloader_cmd>>

metaVars == <<m_pc, project_metadata, cargo_toml, kernel_pkg, bootloader_pkg, binary_feature,
              build_config, m_ret, envVars>>

isoVars == <<i_pc, i_args, isodir, grub_dir, grub_cfg, kernel_elf, iso, mkrescue_output, i_ret, i_rets,
             i_at_call>>

cacheVars == <<builders, workspace_version, c_hist, c_ret>>

pipeVars == <<b_pc, b_steps, b_ret>>

otherBuilderVars == <<isoVars, cacheVars, pipeVars>>

componentVars == <<runVars, suiteVars, diskVars, artifactVars, metaVars>>

builderVars == <<diskVars, artifactVars, metaVars, otherBuilderVars>>

vars == <<runVars, argVars, suiteVars, builderVars>>

ExitCodes == 0..MaxExitCode

\* Option<T> over a set S.
Option(S) == {{}} \cup {{v} : v \in S}

Unwrap(o) == CHOOSE v \in o : TRUE

-----------------------------------------------------------------------------
(***************************************************************************)
(* run(): src/src/run.rs                                                   *)
(***************************************************************************)

NoRet == [kind |-> "none", code |-> 0, err |-> ""]

Ok(c) == [kind |-> "Ok", code |-> c, err |-> ""]

Err(e) == [kind |-> "Err", code |-> 0, err |-> e]

\* A variant of the decoding that tests the raw code against 0 before it tests
\* it against the configured success code.
DecodeExitCode_ZeroFirst(success, qemu_exit_code) ==
    IF success # {} /\ qemu_exit_code = 0 THEN 1
    ELSE IF success # {} /\ qemu_exit_code = Unwrap(success) THEN 0
    ELSE qemu_exit_code

\* A variant of the decoding with the results of its two arms exchanged.
DecodeExitCode_ArmsExchanged(success, qemu_exit_code) ==
    IF success # {} /\ qemu_exit_code = Unwrap(success) THEN 1
    ELSE IF success # {} /\ qemu_exit_code = 0 THEN 0
    ELSE qemu_exit_code

\* A variant of the decoding without the arm that turns a raw 0 into 1.
DecodeExitCode_NoZeroArm(success, qemu_exit_code) ==
    IF success # {} /\ qemu_exit_code = Unwrap(success) THEN 0
    ELSE qemu_exit_code

\* The match on config.test_success_exit_code.
DecodeExitCode(success, qemu_exit_code) ==
    IF success # {} /\ qemu_exit_code = Unwrap(success) THEN 0
    ELSE IF success # {} /\ qemu_exit_code = 0 THEN 1
    ELSE qemu_exit_code

\* A variant of the Some(exit_status) arm that compares the Option of the raw
\* code with the Option of the success code before it unwraps the raw code.
DecodeExitStatus_CompareOptions(success, code) ==
    IF code = success THEN Ok(0)
    ELSE IF code = {} THEN Err("NoQemuExitCode")
    ELSE Ok(DecodeExitCode(success, Unwrap(code)))

\* The Some(exit_status) arm: exit_status.code().ok_or(NoQemuExitCode)?, then the match.
DecodeExitStatus(success, code) ==
    IF code = {} THEN Err("NoQemuExitCode")
    ELSE Ok(DecodeExitCode(success, Unwrap(code)))

\* image_path.display()
ImagePath == "target/x86_64-os/debug/bootimage-kernel.bin"

\* The run-command templates: an argument is the sequence of its pieces around
\* the occurrences of "{}".  The first is the default of the configuration, the
\* second is `run-command = []`.
RunCommands ==
    {<< <<"qemu-system-x86_64">>, <<"-drive">>, <<"format=raw,file=", "{}">> >>,
     << >>}

Configs ==
    [run_command : RunCommands,
     test_no_reboot : BOOLEAN,
     test_args : Option({<<"-display", "none">>}),
     run_args : Option({<<"-s">>})]

RunnerArgs == Option({<<"-serial", "stdio">>})

RECURSIVE Replace(_, _)
\* arg.replace("{}", path): every occurrence of "{}" becomes the path.
Replace(arg, path) ==
    IF arg = <<>> THEN ""
    ELSE (IF Head(arg) = "{}" THEN path ELSE Head(arg)) \o Replace(Tail(arg), path)

\* Some(args) => args, None => nothing.
Extend(args) == IF args = {} THEN <<>> ELSE Unwrap(args)

\* A variant of the argv in which the mode arguments follow the runner arguments.
RunCommand_ExtraBeforeMode(cfg, test, extra) ==
    [k \in 1..Len(cfg.run_command) |-> Replace(cfg.run_command[k], ImagePath)]
    \o Extend(extra)
    \o (IF test
        THEN (IF cfg.test_no_reboot THEN <<"-no-reboot">> ELSE <<>>) \o Extend(cfg.test_args)
        ELSE Extend(cfg.run_args))

\* The run_command vector: the template with the image path substituted, then
\* the arguments of the mode, then the runner arguments.
RunCommand(cfg, test, extra) ==
    [k \in 1..Len(cfg.run_command) |-> Replace(cfg.run_command[k], ImagePath)]
    \o (IF test
        THEN (IF cfg.test_no_reboot THEN <<"-no-reboot">> ELSE <<>>) \o Extend(cfg.test_args)
        ELSE Extend(cfg.run_args))
    \o Extend(extra)

\* A panic of the thread that called run().
Panic(msg) == [kind |-> "panic", code |-> 0, err |-> msg]

RunInit ==
    /\ is_test \in BOOLEAN
    /\ test_success_exit_code \in Option(ExitCodes)
    /\ config \in Configs
    /\ runner_args \in RunnerArgs
    /\ run_command = <<>>
    /\ pc = "args"
    /\ child = "none"
    /\ exit_status = {}
    /\ wait_result = "pending"
    /\ ops = <<>>
    /\ ret = NoRet

\* The construction of run_command, then process::Command::new(&run_command[0])
\* and command.args(&run_command[1..]): indexing an empty vector panics.
BuildCommand ==
    /\ pc = "args"
    /\ run_command' = RunCommand(config, is_test, runner_args)
    /\ IF run_command' = <<>>
       THEN /\ ret' = Panic("index out of bounds")
            /\ pc' = "done"
       ELSE /\ ret' = ret
            /\ pc' = "start"
    /\ UNCHANGED <<is_test, test_success_exit_code, config, runner_args, child, exit_status,
                   wait_result, ops, suiteVars, builderVars>>

\* command.spawn() of a test run: the process starts, or the spawn fails.
Spawn ==
    /\ pc = "start"
    /\ is_test
    /\ \/ /\ child' = "running"
          /\ ops' = Append(ops, "spawn")
          /\ pc' = "wait_timeout"
          /\ ret' = ret
       \/ /\ ret' = Err("Io:QemuTestCommand")
          /\ pc' = "done"
          /\ UNCHANGED <<child, ops>>
    /\ UNCHANGED <<is_test, test_success_exit_code, exit_status, wait_result, argVars, suiteVars, builderVars>>

\* The emulator exits on its own with a raw exit code (the guest wrote to the
\* debug-exit port, or the emulator was closed).
ChildExits ==
    /\ child = "running"
    /\ \E c \in ExitCodes : exit_status' = {c}
    /\ child' = "exited"
    /\ UNCHANGED <<is_test, test_success_exit_code, pc, wait_result, ops, ret, argVars, suiteVars, builderVars>>

\* The emulator is terminated by a signal sent from outside: it has no exit code.
ChildSignalled ==
    /\ child = "running"
    /\ exit_status' = {}
    /\ child' = "exited"
    /\ UNCHANGED <<is_test, test_success_exit_code, pc, wait_result, ops, ret, argVars, suiteVars, builderVars>>

\* child.wait_timeout(timeout): an I/O error, the status of a process that has
\* exited (which reaps it), or None when the timeout elapses first.  The Some arm
\* runs to the end of run().
WaitTimeout ==
    /\ pc = "wait_timeout"
    /\ ops' = Append(ops, "wait_timeout")
    /\ \/ /\ wait_result' = "Err"
          /\ ret' = Err("Io:WaitWithTimeout")
          /\ pc' = "done"
          /\ child' = child
       \/ /\ child = "exited"
          /\ wait_result' = "Some"
          /\ child' = "reaped"
          /\ ret' = DecodeExitStatus(test_success_exit_code, exit_status)
          /\ pc' = "done"
       \/ /\ child = "running"
          /\ wait_result' = "None"
          /\ pc' = "timed_out"
          /\ UNCHANGED <<child, ret>>
    /\ UNCHANGED <<is_test, test_success_exit_code, exit_status, argVars, suiteVars, builderVars>>

\* child.kill() in the None arm: it fails and run() returns through `?`, or it
\* succeeds and the process, if it was still running, is dead and has no exit code.
Kill ==
    /\ pc = "timed_out"
    /\ ops' = Append(ops, "kill")
    /\ \/ /\ ret' = Err("Io:KillQemu")
          /\ pc' = "done"
          /\ UNCHANGED <<child, exit_status>>
       \/ /\ child' = "exited"
          /\ exit_status' = (IF child = "running" THEN {} ELSE exit_status)
          /\ pc' = "killed"
          /\ ret' = ret
    /\ UNCHANGED <<is_test, test_success_exit_code, wait_result, argVars, suiteVars, builderVars>>

\* child.wait() in the None arm, then return Err(TestTimedOut).
Wait ==
    /\ pc = "killed"
    /\ ops' = Append(ops, "wait")
    /\ \/ /\ ret' = Err("Io:WaitForQemu")
          /\ child' = child
       \/ /\ child' = "reaped"
          /\ ret' = Err("TestTimedOut")
    /\ pc' = "done"
    /\ UNCHANGED <<is_test, test_success_exit_code, exit_status, wait_result, argVars, suiteVars, builderVars>>

\* A variant of the plain run that waits for the process as a test run does.
StatusSpawn_TimeBounded ==
    /\ pc = "start"
    /\ ~is_test
    /\ child' = "running"
    /\ ops' = Append(ops, "spawn")
    /\ pc' = "wait_timeout"
    /\ UNCHANGED <<is_test, test_success_exit_code, exit_status, wait_result, ret, argVars,
                   suiteVars, builderVars>>

\* command.status() of a plain run, first half: the process starts, or the
\* spawn fails.
StatusSpawn ==
    /\ pc = "start"
    /\ ~is_test
    /\ \/ /\ child' = "running"
          /\ ops' = Append(ops, "spawn")
          /\ pc' = "status"
          /\ ret' = ret
       \/ /\ ret' = Err("Io:QemuRunCommand")
          /\ pc' = "done"
          /\ UNCHANGED <<child, ops>>
    /\ UNCHANGED <<is_test, test_success_exit_code, exit_status, wait_result, argVars, suiteVars, builderVars>>

\* A variant of the plain run that decodes the raw code as a test run does.
StatusWait_Decoded ==
    /\ pc = "status"
    /\ child = "exited"
    /\ child' = "reaped"
    /\ ops' = Append(ops, "wait")
    /\ ret' = DecodeExitStatus(test_success_exit_code, exit_status)
    /\ pc' = "done"
    /\ UNCHANGED <<is_test, test_success_exit_code, exit_status, wait_result, argVars,
                   suiteVars, builderVars>>

\* command.status() of a plain run, second half: it blocks until the process has
\* exited, reaps it and run() returns status.code().unwrap_or(1).
StatusWait ==
    /\ pc = "status"
    /\ child = "exited"
    /\ child' = "reaped"
    /\ ops' = Append(ops, "wait")
    /\ ret' = Ok(IF exit_status = {} THEN 1 ELSE Unwrap(exit_status))
    /\ pc' = "done"
    /\ UNCHANGED <<is_test, test_success_exit_code, exit_status, wait_result, argVars, suiteVars, builderVars>>

RunNext ==
    \/ BuildCommand
    \/ Spawn
    \/ ChildExits
    \/ ChildSignalled
    \/ WaitTimeout
    \/ Kill
    \/ Wait
    \/ StatusSpawn
    \/ StatusWait


-----------------------------------------------------------------------------
(***************************************************************************)
(* test(): src/src/subcommand/test.rs                                      *)
(***************************************************************************)

\* The names of the test-* binary targets of the kernel package, in the order of
\* kernel_package.targets.  Cargo rejects a package with two binary targets of
\* one name, so they are distinct.
TargetNames == <<"test-a", "test-a.bin", "test-b", "test-c">>

\* out_dir of the build: the same for every test of a suite.
OutDir == "target/x86_64-os/debug"

\* A variant of the image path that leaves out the binary name.
BootimagePath_NoBinName(kernel_bin_name) ==
    OutDir \o "/" \o "bootimage.bin"

\* bootimage_path: out_dir.join(format!("bootimage-{}.bin", kernel_bin_name)).
BootimagePath(kernel_bin_name) ==
    OutDir \o "/" \o "bootimage-" \o kernel_bin_name \o ".bin"

\* A variant of the output file that is one file for the whole suite.
OutputFile_Shared(test_path) ==
    OutDir \o "/" \o "output.txt"

\* output_file: format!("{}-output.txt", test_path.display()).
OutputFile(test_path) ==
    test_path \o "-output.txt"

\* The path build_impl returned for test i.
TestPath(i) == BootimagePath(TargetNames[i])

\* The emulator command of the closure.
QemuCommand(test_path) ==
    << "qemu-system-x86_64",
       "-drive", "format=raw,file=" \o test_path,
       "-device", "isa-debug-exit,iobase=0xf4,iosize=0x04",
       "-display", "none",
       "-serial", "file:" \o OutputFile(test_path) >>

\* The serial output of a guest is a sequence of characters.
OkLine == <<"o", "k", "\n">>

FailedLine == <<"f", "a", "i", "l", "e", "d", "\n">>

GuestOutputs == {OkLine, FailedLine, <<"o", "k">>}

\* The raw exit codes of a suite's emulators: one for each arm of the match in
\* handle_exit_status (1, 5, 7) and 0 for its `_` arm.
SuiteExitCodes == {0, 1, 5, 7}

Paths == {OutputFile(BootimagePath(TargetNames[i])) : i \in 1..Len(TargetNames)}

\* str::starts_with.
StartsWith(s, prefix) ==
    /\ Len(s) >= Len(prefix)
    /\ SubSeq(s, 1, Len(prefix)) = prefix

\* A variant of handle_exit_status that consults the output for code 7 as well.
handle_exit_status_OutputFor7(code, output) ==
    IF code = {} THEN "Invalid"
    ELSE IF Unwrap(code) = 1 THEN
        IF StartsWith(output, OkLine) THEN "Ok"
        ELSE IF StartsWith(output, FailedLine) THEN "Failed"
        ELSE "Invalid"
    ELSE IF Unwrap(code) = 5 THEN "Ok"
    ELSE IF Unwrap(code) = 7 THEN
        IF StartsWith(output, FailedLine) THEN "Failed" ELSE "Invalid"
    ELSE "Invalid"

\* handle_exit_status: the TestResult for an exit status and the captured output.
handle_exit_status(code, output) ==
    IF code = {} THEN "Invalid"
    ELSE IF Unwrap(code) = 1 THEN
        IF StartsWith(output, OkLine) THEN "Ok"
        ELSE IF StartsWith(output, FailedLine) THEN "Failed"
        ELSE "Invalid"
    ELSE IF Unwrap(code) = 5 THEN "Ok"
    ELSE IF Unwrap(code) = 7 THEN "Failed"
    ELSE "Invalid"

Tests == 1..s_n

NoResult == [kind |-> "none", err |-> ""]

Terminal(p) == p \in {"verdict", "error"}

SuiteInit ==
    /\ s_n \in 0..MaxTests
    /\ s_phase = (IF s_n = 0 THEN "run" ELSE "build")
    /\ s_built = 0
    /\ s_pc = [i \in Tests |-> "pending"]
    /\ s_cmd = [i \in Tests |-> <<>>]
    /\ s_child = [i \in Tests |-> "none"]
    /\ s_wait = [i \in Tests |-> "pending"]
    /\ s_exit = [i \in Tests |-> {}]
    /\ s_out = [i \in Tests |-> <<>>]
    /\ s_verdict = [i \in Tests |-> "none"]
    /\ s_error = [i \in Tests |-> ""]
    /\ files = [p \in Paths |-> {}]
    /\ s_full = FALSE
    /\ s_saved_error = {}
    /\ s_outOfOrder = FALSE
    /\ s_tests = <<>>
    /\ s_report = <<>>
    /\ s_result = NoResult

\* One pass of the build loop: build_impl succeeds with one executable and the
\* test is pushed, or it fails and .expect panics, or it yields no executable or
\* several and test() returns the error.
SuiteBuild ==
    /\ s_phase = "build"
    /\ s_built < s_n
    /\ \/ /\ s_built' = s_built + 1
          /\ s_phase' = (IF s_built + 1 = s_n THEN "run" ELSE "build")
          /\ s_result' = s_result
       \/ /\ s_phase' = "done"
          /\ s_result' = [kind |-> "panic", err |-> "Failed to build test: " \o TargetNames[s_built + 1]]
          /\ s_built' = s_built
       \/ /\ s_phase' = "done"
          /\ s_result' = [kind |-> "Err", err |-> "no test executable built"]
          /\ s_built' = s_built
       \/ /\ s_phase' = "done"
          /\ s_result' = [kind |-> "Err", err |-> "more than one test executables built"]
          /\ s_built' = s_built
    /\ UNCHANGED <<s_n, s_pc, s_cmd, s_child, s_wait, s_exit, s_out, s_verdict, s_error, files,
                   s_full, s_saved_error, s_outOfOrder, s_tests, s_report>>
    /\ UNCHANGED <<runVars, builderVars>>


\* Whether test i ends while a test before it in test_targets has not ended yet.
EndsOutOfOrder(i) == s_outOfOrder \/ \E j \in 1..(i - 1) : ~Terminal(s_pc[j])

\* The closure of test i returns Err(msg) through `?`: rayon keeps the first
\* error and raises the flag that stops the map.
CloseWithError(i, msg) ==
    /\ s_pc' = [s_pc EXCEPT ![i] = "error"]
    /\ s_error' = [s_error EXCEPT ![i] = msg]
    /\ s_full' = TRUE
    /\ s_saved_error' = (IF s_saved_error = {} THEN {msg} ELSE s_saved_error)
    /\ s_outOfOrder' = EndsOutOfOrder(i)
    /\ s_verdict' = s_verdict

\* The closure of test i returns Ok((name, verdict)).
CloseWithVerdict(i, verdict) ==
    /\ s_pc' = [s_pc EXCEPT ![i] = "verdict"]
    /\ s_verdict' = [s_verdict EXCEPT ![i] = verdict]
    /\ s_outOfOrder' = EndsOutOfOrder(i)
    /\ UNCHANGED <<s_error, s_full, s_saved_error>>

\* The closure of test i starts, unless the map was stopped: it spawns the
\* emulator, which creates its serial file empty, or the spawn fails.
SuiteSpawn(i) ==
    /\ s_phase = "run"
    /\ s_pc[i] = "pending"
    /\ ~s_full
    /\ \/ /\ s_cmd' = [s_cmd EXCEPT ![i] = QemuCommand(TestPath(i))]
          /\ s_child' = [s_child EXCEPT ![i] = "running"]
          /\ files' = [files EXCEPT ![OutputFile(TestPath(i))] = {<<>>}]
          /\ s_pc' = [s_pc EXCEPT ![i] = "wait_timeout"]
          /\ UNCHANGED <<s_verdict, s_error, s_full, s_saved_error, s_outOfOrder>>
       \/ /\ CloseWithError(i, "Failed to launch QEMU: " \o TestPath(i))
          /\ UNCHANGED <<s_cmd, s_child, files>>
    /\ UNCHANGED <<s_n, s_phase, s_built, s_wait, s_exit, s_out, s_tests, s_report, s_result>>
    /\ UNCHANGED <<runVars, builderVars>>

\* The guest of test i writes its serial output and the emulator exits with a
\* raw exit code, or is terminated by a signal, before the timeout elapses (a
\* guest that has not exited by then is one that hangs; Spec has the race).
GuestExits(i) ==
    /\ s_child[i] = "running"
    /\ s_pc[i] = "wait_timeout"
    /\ \E code \in Option(SuiteExitCodes), out \in GuestOutputs :
          /\ s_exit' = [s_exit EXCEPT ![i] = code]
          /\ s_out' = [s_out EXCEPT ![i] = out]
          /\ files' = [files EXCEPT ![OutputFile(TestPath(i))] = {out}]
    /\ s_child' = [s_child EXCEPT ![i] = "exited"]
    /\ UNCHANGED <<s_n, s_phase, s_built, s_pc, s_cmd, s_wait, s_verdict, s_error, s_full,
                   s_saved_error, s_outOfOrder, s_tests, s_report, s_result>>
    /\ UNCHANGED <<runVars, builderVars>>

\* child.wait_timeout of test i: an I/O error; or the exit status, after which
\* the output file is read (or cannot be) and handle_exit_status gives the
\* verdict; or None when the timeout elapses first.
SuiteWaitTimeout(i) ==
    /\ s_pc[i] = "wait_timeout"
    /\ \/ /\ CloseWithError(i, "Failed to wait with timeout")
          /\ s_wait' = [s_wait EXCEPT ![i] = "Err"]
          /\ s_child' = s_child
       \/ /\ s_child[i] = "exited"
          /\ s_wait' = [s_wait EXCEPT ![i] = "Some"]
          /\ s_child' = [s_child EXCEPT ![i] = "reaped"]
          /\ \/ CloseWithError(i, "Failed to read test output file " \o OutputFile(TestPath(i)))
             \/ /\ files[OutputFile(TestPath(i))] # {}
                /\ CloseWithVerdict(i, handle_exit_status(s_exit[i],
                                        Unwrap(files[OutputFile(TestPath(i))])))
       \/ /\ s_child[i] = "running"
          /\ s_wait' = [s_wait EXCEPT ![i] = "None"]
          /\ s_pc' = [s_pc EXCEPT ![i] = "timed_out"]
          /\ UNCHANGED <<s_child, s_verdict, s_error, s_full, s_saved_error, s_outOfOrder>>
    /\ UNCHANGED <<s_n, s_phase, s_built, s_cmd, s_exit, s_out, files, s_tests, s_report, s_result>>
    /\ UNCHANGED <<runVars, builderVars>>

\* child.kill() of test i after the timeout.
SuiteKill(i) ==
    /\ s_pc[i] = "timed_out"
    /\ \/ /\ CloseWithError(i, "Failed to kill QEMU")
          /\ UNCHANGED <<s_child, s_exit>>
       \/ /\ s_child' = [s_child EXCEPT ![i] = "exited"]
          /\ s_exit' = [s_exit EXCEPT ![i] = IF s_child[i] = "running" THEN {} ELSE s_exit[i]]
          /\ s_pc' = [s_pc EXCEPT ![i] = "killed"]
          /\ UNCHANGED <<s_verdict, s_error, s_full, s_saved_error, s_outOfOrder>>
    /\ UNCHANGED <<s_n, s_phase, s_built, s_cmd, s_wait, s_out, files, s_tests, s_report, s_result>>
    /\ UNCHANGED <<runVars, builderVars>>

\* child.wait() of test i after the kill, then test_result = TimedOut.
SuiteWait(i) ==
    /\ s_pc[i] = "killed"
    /\ \/ /\ CloseWithError(i, "Failed to wait for QEMU process")
          /\ s_child' = s_child
       \/ /\ s_child' = [s_child EXCEPT ![i] = "reaped"]
          /\ CloseWithVerdict(i, "TimedOut")
    /\ UNCHANGED <<s_n, s_phase, s_built, s_cmd, s_wait, s_exit, s_out, files, s_tests, s_report, s_result>>
    /\ UNCHANGED <<runVars, builderVars>>

\* The Vec that collect() yields when no closure returned an error: the
\* (name, verdict) pairs in the order of test_targets.
CollectedTests == [i \in Tests |-> <<TargetNames[i], s_verdict[i]>>]

NotOk(t) == t[2] # "Ok"

\* A variant of the report that stops after the first test that is not Ok.
FailedTests_FirstOnly(tests) ==
    IF SelectSeq(tests, NotOk) = <<>> THEN <<>> ELSE <<Head(SelectSeq(tests, NotOk))>>

\* The report lines: tests.iter().filter(|t| t.1 != TestResult::Ok).
FailedTests(tests) == SelectSeq(tests, NotOk)

\* A variant of the aggregate that asks for any Ok test instead of all.
AllOk_Any(tests) == tests = <<>> \/ \E k \in 1..Len(tests) : tests[k][2] = "Ok"

\* tests.iter().all(|t| t.1 == TestResult::Ok).
AllOk(tests) == \A k \in 1..Len(tests) : tests[k][2] = "Ok"

\* The parallel map has ended: every closure has returned, or was never started
\* because the map was stopped.  collect() returns the saved error, which `?`
\* returns from test(); or it returns the Vec and the report is written.
SuiteCollect ==
    /\ s_phase = "run"
    /\ \A i \in Tests : Terminal(s_pc[i]) \/ (s_pc[i] = "pending" /\ s_full)
    /\ s_phase' = "done"
    /\ \/ /\ s_saved_error # {}
          /\ s_result' = [kind |-> "Err", err |-> Unwrap(s_saved_error)]
          /\ UNCHANGED <<s_tests, s_report>>
       \/ /\ s_saved_error = {}
          /\ s_tests' = CollectedTests
          /\ s_report' = (IF AllOk(CollectedTests) THEN <<>> ELSE FailedTests(CollectedTests))
          /\ s_result' = (IF AllOk(CollectedTests)
                            THEN [kind |-> "Ok", err |-> ""]
                            ELSE [kind |-> "Err", err |-> "Some tests failed"])
    /\ UNCHANGED <<s_n, s_built, s_pc, s_cmd, s_child, s_wait, s_exit, s_out, s_verdict, s_error,
                   files, s_full, s_saved_error, s_outOfOrder>>
    /\ UNCHANGED <<runVars, builderVars>>

SuiteNext ==
    \/ SuiteBuild
    \/ \E i \in Tests : SuiteSpawn(i)
    \/ \E i \in Tests : GuestExits(i)
    \/ \E i \in Tests : SuiteWaitTimeout(i)
    \/ \E i \in Tests : SuiteKill(i)
    \/ \E i \in Tests : SuiteWait(i)
    \/ SuiteCollect

-----------------------------------------------------------------------------
(***************************************************************************)
(* create_disk_image(): src/src/builder/disk_image.rs                      *)
(***************************************************************************)

\* const BLOCK_SIZE: u64 = 512
BLOCK_SIZE == 512

\* llvm-objcopy writes a file of 0..MaxFileSize bytes.
MaxFileSize == 1025

FileSizes == 0..MaxFileSize

\* Ok(()) of a builder operation.
Done == [kind |-> "Ok", err |-> ""]

Failed(e) == [kind |-> "Err", err |-> e]

\* A variant of the padding that adds the remainder itself.
Padding_Remainder(size) == size % BLOCK_SIZE

\* A variant of the padding without the test for a remainder of 0.
Padding_NoZeroTest(size) == BLOCK_SIZE - (size % BLOCK_SIZE)

\* let remainder = file_size % BLOCK_SIZE;
\* let padding = if remainder > 0 { BLOCK_SIZE - remainder } else { 0 };
Padding(size) ==
    LET remainder == size % BLOCK_SIZE
    IN  IF remainder > 0 THEN BLOCK_SIZE - remainder ELSE 0

\* create_disk_image is called with an output path that holds no file or the
\* image of an earlier build.
\* The installation of the llvm-tools-preview component: missing, not to be
\* located for another reason, without llvm-objcopy, or complete.
Installations == {"NotFound", "OtherError", "NoObjcopy", "Complete"}

\* What a failing llvm-objcopy writes to standard error.
Stderrs == {"", "llvm-objcopy: error: not an ELF file"}

\* A variant of the conversion that maps every llvm_tools::Error to LlvmTools.
FromLlvmToolsError_NoNotFound(err) == "LlvmTools"

\* impl From<llvm_tools::Error> for DiskImageError
FromLlvmToolsError(err) == IF err = "NotFound" THEN "LlvmToolsNotFound" ELSE "LlvmTools"

DiskInit ==
    /\ d_pc = "llvm_tools"
    /\ image \in {{}, {BLOCK_SIZE}}
    /\ objcopy_len = {}
    /\ file_size = 0
    /\ d_ret = NoResult
    /\ llvm_tools \in Installations
    /\ objcopy_output = {}
    /\ d_ops = <<>>

\* llvm_tools::LlvmTools::new()?, with the From<llvm_tools::Error> conversion.
LlvmToolsNew ==
    /\ d_pc = "llvm_tools"
    /\ d_ops' = Append(d_ops, "llvm_tools")
    /\ IF llvm_tools \in {"NotFound", "OtherError"}
       THEN d_pc' = "done" /\ d_ret' = Failed(FromLlvmToolsError(llvm_tools))
       ELSE d_pc' = "tool" /\ d_ret' = d_ret
    /\ UNCHANGED <<llvm_tools, objcopy_output, image, objcopy_len, file_size, runVars, suiteVars, artifactVars, metaVars, otherBuilderVars>>

\* llvm_tools.tool(&llvm_tools::exe("llvm-objcopy")).ok_or(LlvmObjcopyNotFound)?
LlvmTool ==
    /\ d_pc = "tool"
    /\ d_ops' = Append(d_ops, "tool")
    /\ IF llvm_tools = "NoObjcopy"
       THEN d_pc' = "done" /\ d_ret' = Failed("LlvmObjcopyNotFound")
       ELSE d_pc' = "objcopy" /\ d_ret' = d_ret
    /\ UNCHANGED <<llvm_tools, objcopy_output, image, objcopy_len, file_size, runVars, suiteVars, artifactVars, metaVars, otherBuilderVars>>

\* cmd.output() of llvm-objcopy: the command cannot be executed, it exits with
\* a failure status, or it succeeds and has written the binary to output_bin_path.
Objcopy ==
    /\ d_pc = "objcopy"
    /\ d_ops' = Append(d_ops, "objcopy")
    /\ \/ /\ d_pc' = "done"
          /\ d_ret' = Failed("Io:failed to execute llvm-objcopy command")
          /\ UNCHANGED <<image, objcopy_len, objcopy_output>>
       \/ /\ \E stderr \in Stderrs :
                /\ objcopy_output' = {[success |-> FALSE, stderr |-> stderr]}
                /\ d_ret' = Failed("ObjcopyFailed:" \o stderr)
          /\ d_pc' = "done"
          /\ UNCHANGED <<image, objcopy_len>>
       \/ /\ \E n \in FileSizes :
                /\ image' = {n}
                /\ objcopy_len' = {n}
          /\ objcopy_output' = {[success |-> TRUE, stderr |-> ""]}
          /\ d_pc' = "open"
          /\ d_ret' = d_ret
    /\ UNCHANGED <<llvm_tools, file_size, runVars, suiteVars, artifactVars, metaVars, otherBuilderVars>>

\* OpenOptions::new().write(true).open(&output_bin_path): a missing file is
\* not created.
PadOpen ==
    /\ d_pc = "open"
    /\ d_ops' = Append(d_ops, "open")
    /\ UNCHANGED <<llvm_tools, objcopy_output>>
    /\ \/ /\ image # {}
          /\ d_pc' = "metadata"
          /\ d_ret' = d_ret
       \/ /\ d_pc' = "done"
          /\ d_ret' = Failed("Io:failed to open boot image")
    /\ UNCHANGED <<image, objcopy_len, file_size, runVars, suiteVars, artifactVars, metaVars, otherBuilderVars>>

\* file.metadata()?.len()
PadMetadata ==
    /\ d_pc = "metadata"
    /\ d_ops' = Append(d_ops, "metadata")
    /\ UNCHANGED <<llvm_tools, objcopy_output>>
    /\ \/ /\ file_size' = Unwrap(image)
          /\ d_pc' = "set_len"
          /\ d_ret' = d_ret
       \/ /\ d_pc' = "done"
          /\ d_ret' = Failed("Io:failed to get size of boot image")
          /\ file_size' = file_size
    /\ UNCHANGED <<image, objcopy_len, runVars, suiteVars, artifactVars, metaVars, otherBuilderVars>>

\* file.set_len(file_size + padding), the last call of create_disk_image.
PadSetLen ==
    /\ d_pc = "set_len"
    /\ d_ops' = Append(d_ops, "set_len")
    /\ UNCHANGED <<llvm_tools, objcopy_output>>
    /\ \/ /\ image' = {file_size + Padding(file_size)}
          /\ d_ret' = Done
       \/ /\ d_ret' = Failed("Io:failed to pad boot image to a multiple of the block size")
          /\ image' = image
    /\ d_pc' = "done"
    /\ UNCHANGED <<objcopy_len, file_size, runVars, suiteVars, artifactVars, metaVars, otherBuilderVars>>

DiskNext ==
    \/ LlvmToolsNew
    \/ LlvmTool
    \/ Objcopy
    \/ PadOpen
    \/ PadMetadata
    \/ PadSetLen

DiskIdle ==
    /\ d_pc = "idle"
    /\ image = {}
    /\ objcopy_len = {}
    /\ file_size = 0
    /\ d_ret = NoResult
    /\ llvm_tools = "Complete"
    /\ objcopy_output = {}
    /\ d_ops = <<>>

-----------------------------------------------------------------------------
(***************************************************************************)
(* The artifact resolution of Builder::create_bootimage():                 *)
(* src/src/builder/mod.rs                                                  *)
(***************************************************************************)

\* The build output holds at most MaxLines lines.
MaxLines == 3

\* The paths an `executable` field names.
ExecutablePaths == {"target/bootimage/bootloader/release/bootloader",
                    "target/bootimage/bootloader/release/stage_2"}

\* A line of the build output: it parses as JSON or not, and when it does its
\* "executable" field holds a string or not (null, absent, or the line is not an
\* artifact message).
BuildLines ==
    {[json |-> FALSE, executable |-> {}]} \cup
    {[json |-> TRUE, executable |-> e] : e \in Option(ExecutablePaths)}

RECURSIVE SeqsUpTo(_, _)
\* The sequences over S of length at most n.
SeqsUpTo(S, n) ==
    IF n = 0 THEN {<<>>}
    ELSE LET shorter == SeqsUpTo(S, n - 1)
         IN  shorter \cup {Append(q, x) : q \in {r \in shorter : Len(r) = n - 1}, x \in S}

\* A variant of the loop body in which a later executable replaces an earlier one.
ScanStep_LastWins(elf_path, artifact) ==
    IF ~artifact.json THEN [path |-> elf_path, err |-> "BuildJsonOutputInvalidJson"]
    ELSE IF artifact.executable # {} THEN [path |-> artifact.executable, err |-> ""]
    ELSE [path |-> elf_path, err |-> ""]

\* A variant of the loop body that accepts a repetition of the path it holds.
ScanStep_SamePathAllowed(elf_path, artifact) ==
    IF ~artifact.json THEN [path |-> elf_path, err |-> "BuildJsonOutputInvalidJson"]
    ELSE IF artifact.executable # {}
         THEN [path |-> artifact.executable,
               err |-> IF elf_path # {} /\ elf_path # artifact.executable
                       THEN "BootloaderInvalid:bootloader has multiple executables"
                       ELSE ""]
    ELSE [path |-> elf_path, err |-> ""]

\* The body of the for loop: json::parse(line)?, then
\* if let Some(executable) = artifact["executable"].take_string() and the
\* Option::replace that must return None.
ScanStep(elf_path, artifact) ==
    IF ~artifact.json THEN [path |-> elf_path, err |-> "BuildJsonOutputInvalidJson"]
    ELSE IF artifact.executable # {}
         THEN [path |-> artifact.executable,
               err |-> IF elf_path # {}
                       THEN "BootloaderInvalid:bootloader has multiple executables"
                       ELSE ""]
    ELSE [path |-> elf_path, err |-> ""]

ArtifactInit ==
    /\ a_pc = "build_json"
    /\ stdout_lines = <<>>
    /\ line_no = 1
    /\ bootloader_elf_path = {}
    /\ a_ret = NoResult

\* cmd.output() of the build command with --message-format json, the test of
\* its status and String::from_utf8(output.stdout).
BuildJson ==
    /\ a_pc = "build_json"
    /\ \/ /\ a_ret' = Failed("Io:failed to execute bootloader build command with json output")
          /\ a_pc' = "done"
          /\ stdout_lines' = stdout_lines
       \/ /\ a_ret' = Failed("BootloaderBuildFailed")
          /\ a_pc' = "done"
          /\ stdout_lines' = stdout_lines
       \/ /\ a_ret' = Failed("BuildJsonOutputInvalidUtf8")
          /\ a_pc' = "done"
          /\ stdout_lines' = stdout_lines
       \/ /\ stdout_lines' \in SeqsUpTo(BuildLines, MaxLines)
          /\ a_pc' = "scan"
          /\ a_ret' = a_ret
    /\ UNCHANGED <<line_no, bootloader_elf_path, runVars, suiteVars, diskVars, metaVars, otherBuilderVars>>

\* One iteration of the for loop over the lines.
ScanLine ==
    /\ a_pc = "scan"
    /\ line_no <= Len(stdout_lines)
    /\ LET step == ScanStep(bootloader_elf_path, stdout_lines[line_no])
       IN  /\ bootloader_elf_path' = step.path
           /\ IF step.err # ""
              THEN /\ a_ret' = Failed(step.err)
                   /\ a_pc' = "done"
                   /\ line_no' = line_no
              ELSE /\ line_no' = line_no + 1
                   /\ UNCHANGED <<a_pc, a_ret>>
    /\ UNCHANGED <<stdout_lines, runVars, suiteVars, diskVars, metaVars, otherBuilderVars>>

\* After the loop: bootloader_elf_path.ok_or_else(..)?
ScanEnd ==
    /\ a_pc = "scan"
    /\ line_no > Len(stdout_lines)
    /\ a_ret' = (IF bootloader_elf_path = {}
                 THEN Failed("BootloaderInvalid:bootloader has no executable")
                 ELSE Done)
    /\ a_pc' = "done"
    /\ UNCHANGED <<stdout_lines, line_no, bootloader_elf_path, runVars, suiteVars, diskVars, metaVars, otherBuilderVars>>

ArtifactNext ==
    \/ BuildJson
    \/ ScanLine
    \/ ScanEnd

ArtifactIdle ==
    /\ a_pc = "idle"
    /\ stdout_lines = <<>>
    /\ line_no = 1
    /\ bootloader_elf_path = {}
    /\ a_ret = NoResult

-----------------------------------------------------------------------------
(***************************************************************************)
(* BuildConfig::from_metadata(): src/src/builder/bootloader.rs             *)
(***************************************************************************)

\* The kernel package declares at most MaxDeps dependencies.
MaxDeps == 2

\* The kernel_manifest_path argument.
KernelManifestPath == "os/Cargo.toml"

\* The dependencies a kernel declares: name and rename.
Dependencies ==
    {[name |-> "bootloader", rename |-> {}],
     [name |-> "bootloader", rename |-> {"boot"}],
     [name |-> "bootloader_fork", rename |-> {"bootloader"}],
     [name |-> "x86_64", rename |-> {}]}

KernelPackage(deps) ==
    [name |-> "os", id |-> "os 0.1.0 (path+file:///os)",
     manifest_path |-> KernelManifestPath, dependencies |-> deps]

BootloaderCrate ==
    [name |-> "bootloader", id |-> "bootloader 0.9.8 (registry)",
     manifest_path |-> "registry/bootloader-0.9.8/Cargo.toml", dependencies |-> <<>>]

BootloaderFork ==
    [name |-> "bootloader_fork", id |-> "bootloader_fork 0.1.0 (path+file:///fork)",
     manifest_path |-> "fork/Cargo.toml", dependencies |-> <<>>]

\* The packages of the metadata besides the kernel package, in their order.
OtherPackages ==
    {<<>>, <<BootloaderCrate>>, <<BootloaderFork>>,
     <<BootloaderCrate, BootloaderFork>>, <<BootloaderFork, BootloaderCrate>>}

\* The nodes of a resolve graph: the id of a package and its enabled features.
ResolveNodes ==
    {<<>>,
     <<[id |-> BootloaderCrate.id, features |-> <<"binary", "map_physical_memory">>]>>,
     <<[id |-> BootloaderFork.id, features |-> <<>>]>>,
     <<[id |-> BootloaderCrate.id, features |-> <<"map_physical_memory">>],
       [id |-> BootloaderFork.id, features |-> <<>>]>>}

\* The Cargo.toml of the bootloader: unreadable, without the
\* package.metadata.bootloader.target key, and with it, without and with a
\* `binary` feature.
CargoTomls ==
    {[readable |-> FALSE, target |-> {}, binary |-> FALSE, build_std |-> {}],
     [readable |-> TRUE, target |-> {}, binary |-> FALSE, build_std |-> {}],
     [readable |-> TRUE, target |-> {"x86_64-bootloader.json"}, binary |-> FALSE,
      build_std |-> {}],
     [readable |-> TRUE, target |-> {"x86_64-bootloader.json"}, binary |-> TRUE,
      build_std |-> {"core"}]}

\* The kernel_bin_path argument.
KernelBinPath == "os/target/x86_64-os/debug/os"

\* Path::parent of a manifest path.
Parent(manifest_path) ==
    CASE manifest_path = "registry/bootloader-0.9.8/Cargo.toml" -> "registry/bootloader-0.9.8"
      [] manifest_path = "fork/Cargo.toml" -> "fork"
      [] manifest_path = "os/Cargo.toml" -> "os"
      [] manifest_path = "kernel/Cargo.toml" -> "kernel"

\* PathBuf::join of a relative path.
JoinPath(base, rel) == base \o "/" \o rel

\* The values of RUSTFLAGS in the environment of the caller: unset, empty, or
\* flags of the kernel build.
RustFlags == {{}, {""}, {"-C target-cpu=native"}}

\* The environments of the caller, over the variables build_command reads or
\* sets.
Environments ==
    [CARGO : Option({"toolchain/bin/cargo"}),
     RUSTFLAGS : RustFlags,
     KERNEL : {{}},
     KERNEL_MANIFEST : {{}},
     XBUILD_SYSROOT_PATH : {{}}]

EnvNames == {"CARGO", "RUSTFLAGS", "KERNEL", "KERNEL_MANIFEST", "XBUILD_SYSROOT_PATH"}

\* iter().find(test), over the sequence of the results of the test: the index of
\* the first element that passes, 0 for None.
Find(hits) ==
    IF \E k \in 1..Len(hits) : hits[k]
    THEN CHOOSE k \in 1..Len(hits) : hits[k] /\ \A j \in 1..(k - 1) : ~hits[j]
    ELSE 0

\* A variant of the effective name that ignores the rename.
EffectiveName_IgnoreRename(p) == p.name

\* p.rename.as_ref().unwrap_or(&p.name)
EffectiveName(p) == IF p.rename # {} THEN Unwrap(p.rename) ELSE p.name

\* fn bootloader_package: the first dependency of the kernel package whose
\* effective name is "bootloader", then the first package with its name.
bootloader_package(metadata, kernel_package) ==
    LET deps == kernel_package.dependencies
        d == Find([k \in 1..Len(deps) |-> EffectiveName(deps[k]) = "bootloader"])
    IN  IF d = 0 THEN [pkg |-> {}, err |-> "BootloaderNotFound"]
        ELSE LET bootloader_name == kernel_package.dependencies[d].name
                 packages == metadata.packages
                 k == Find([q \in 1..Len(packages) |-> packages[q].name = bootloader_name])
             IN  IF k = 0
                 THEN [pkg |-> {},
                       err |-> "CargoMetadataIncomplete:packages[name = " \o bootloader_name]
                 ELSE [pkg |-> {metadata.packages[k]}, err |-> ""]

\* A variant of the feature lookup that takes a missing node as a node without
\* features.
ResolveFeatures_OrDefault(metadata, pkg) ==
    IF metadata.resolve = {} THEN [features |-> <<>>, err |-> "CargoMetadataIncomplete:resolve"]
    ELSE LET nodes == Unwrap(metadata.resolve)
             k == Find([q \in 1..Len(nodes) |-> nodes[q].id = pkg.id])
         IN  IF k = 0 THEN [features |-> <<>>, err |-> ""]
             ELSE [features |-> nodes[k].features, err |-> ""]

\* project_metadata.resolve.as_ref().ok_or(..)?, then
\* resolve.nodes.iter().find(|n| n.id == bootloader_pkg.id).ok_or(..)? and
\* bootloader_resolve.features.clone().  The key of the second error is written
\* without the quotation marks that surround the name.
ResolveFeatures(metadata, pkg) ==
    IF metadata.resolve = {} THEN [features |-> <<>>, err |-> "CargoMetadataIncomplete:resolve"]
    ELSE LET nodes == Unwrap(metadata.resolve)
             k == Find([q \in 1..Len(nodes) |-> nodes[q].id = pkg.id])
         IN  IF k = 0
             THEN [features |-> <<>>,
                   err |-> "CargoMetadataIncomplete:resolve[" \o pkg.name \o "]"]
             ELSE [features |-> nodes[k].features, err |-> ""]

\* A variant of the feature list that enables `binary` whatever the manifest
\* declares.
Features_AlwaysBinary(resolved, binary) == resolved \o <<"binary">>

\* let mut features = bootloader_resolve.features.clone();
\* if binary_feature { features.push("binary".into()); }
Features(resolved, binary) == resolved \o (IF binary THEN <<"binary">> ELSE <<>>)

\* A variant of the target directory that is the same for every bootloader.
TargetDir_NoName(target_directory, bootloader_name) ==
    JoinPath(target_directory, "bootimage")

\* project_metadata.target_directory.join("bootimage").join(bootloader_name)
TargetDir(target_directory, bootloader_name) ==
    JoinPath(JoinPath(target_directory, "bootimage"), bootloader_name)

\* The BuildConfig that from_metadata returns.
MakeBuildConfig(metadata, pkg, toml, features, kernel) ==
    [manifest_path |-> pkg.manifest_path,
     bootloader_name |-> pkg.name,
     target |-> JoinPath(Parent(pkg.manifest_path), Unwrap(toml.target)),
     features |-> features,
     target_dir |-> TargetDir(metadata.target_directory, pkg.name),
     kernel_bin_path |-> KernelBinPath,
     kernel_manifest_path |-> kernel.manifest_path,
     build_std |-> toml.build_std]

RECURSIVE Join(_, _)
\* slice.join(sep)
Join(strings, sep) ==
    IF strings = <<>> THEN ""
    ELSE IF Len(strings) = 1 THEN strings[1]
    ELSE strings[1] \o sep \o Join(Tail(strings), sep)

\* A variant of build_command that leaves RUSTFLAGS as the caller has it.
build_command_InheritRustflags(cfg, env) ==
    [program |-> IF env.CARGO = {} THEN "cargo" ELSE Unwrap(env.CARGO),
     args |-> (IF cfg.build_std # {}
               THEN <<"build", "-Zbuild-std=" \o Unwrap(cfg.build_std)>>
               ELSE <<"xbuild">>)
              \o <<"--manifest-path", cfg.manifest_path,
                   "--bin", cfg.bootloader_name,
                   "--target-dir", cfg.target_dir,
                   "--features", Join(cfg.features, " "),
                   "--target", cfg.target,
                   "--release">>,
     env |-> [env EXCEPT !.KERNEL = {cfg.kernel_bin_path},
                         !.KERNEL_MANIFEST = {cfg.kernel_manifest_path},
                         !.XBUILD_SYSROOT_PATH = {JoinPath(cfg.target_dir, "bootloader-sysroot")}]]

\* fn build_command: the program, the arguments and the environment the command
\* will run with, which is the environment of the caller with the variables
\* that cmd.env sets.
build_command(cfg, env) ==
    [program |-> IF env.CARGO = {} THEN "cargo" ELSE Unwrap(env.CARGO),
     args |-> (IF cfg.build_std # {}
               THEN <<"build", "-Zbuild-std=" \o Unwrap(cfg.build_std)>>
               ELSE <<"xbuild">>)
              \o <<"--manifest-path", cfg.manifest_path,
                   "--bin", cfg.bootloader_name,
                   "--target-dir", cfg.target_dir,
                   "--features", Join(cfg.features, " "),
                   "--target", cfg.target,
                   "--release">>,
     env |-> [env EXCEPT !.KERNEL = {cfg.kernel_bin_path},
                         !.KERNEL_MANIFEST = {cfg.kernel_manifest_path},
                         !.RUSTFLAGS = {""},
                         !.XBUILD_SYSROOT_PATH = {JoinPath(cfg.target_dir, "bootloader-sysroot")}]]

MetaInit ==
    /\ m_pc = "kernel_pkg"
    /\ \E others \in OtherPackages, resolve \in Option(ResolveNodes) :
          \E packages \in {others} \cup
                          {<<KernelPackage(deps)>> \o others :
                               deps \in SeqsUpTo(Dependencies, MaxDeps)} :
             project_metadata = [packages |-> packages, resolve |-> resolve,
                                 target_directory |-> "os/target"]
    /\ cargo_toml \in CargoTomls
    /\ kernel_pkg = {}
    /\ bootloader_pkg = {}
    /\ binary_feature = FALSE
    /\ build_config = {}
    /\ m_ret = NoResult
    /\ ambient_env \in Environments
    /\ bootloader_cmd = {}

\* packages.iter().find(|p| p.manifest_path == kernel_manifest_path).ok_or_else(..)?
FindKernelPackage ==
    /\ m_pc = "kernel_pkg"
    /\ LET packages == project_metadata.packages
           k == Find([q \in 1..Len(packages) |->
                         packages[q].manifest_path = KernelManifestPath])
       IN  IF k = 0
           THEN /\ m_ret' = Failed("KernelPackageNotFound")
                /\ m_pc' = "done"
                /\ kernel_pkg' = kernel_pkg
           ELSE /\ kernel_pkg' = {project_metadata.packages[k]}
                /\ m_pc' = "bootloader_pkg"
                /\ m_ret' = m_ret
    /\ UNCHANGED <<project_metadata, cargo_toml, bootloader_pkg, binary_feature, build_config,
                   envVars, runVars, suiteVars, diskVars, artifactVars,
                   otherBuilderVars>>

\* bootloader_package(project_metadata, kernel_pkg)?
BootloaderPackage ==
    /\ m_pc = "bootloader_pkg"
    /\ LET found == bootloader_package(project_metadata, Unwrap(kernel_pkg))
       IN  /\ bootloader_pkg' = found.pkg
           /\ IF found.err # ""
              THEN m_ret' = Failed(found.err) /\ m_pc' = "done"
              ELSE m_ret' = m_ret /\ m_pc' = "cargo_toml"
    /\ UNCHANGED <<project_metadata, cargo_toml, kernel_pkg, binary_feature, build_config,
                   envVars, runVars, suiteVars, diskVars, artifactVars,
                   otherBuilderVars>>

\* fs::read_to_string of the bootloader's manifest and its parse, the target key
\* and the test for a `binary` feature.
ReadCargoToml ==
    /\ m_pc = "cargo_toml"
    /\ IF ~cargo_toml.readable
       THEN /\ m_ret' = Failed("BootloaderInvalid:bootloader has no valid Cargo.toml")
            /\ m_pc' = "done"
            /\ binary_feature' = binary_feature
       ELSE IF cargo_toml.target = {}
       THEN /\ m_ret' = Failed("BootloaderInvalid:No package.metadata.bootloader.target key found")
            /\ m_pc' = "done"
            /\ binary_feature' = binary_feature
       ELSE /\ binary_feature' = cargo_toml.binary
            /\ m_pc' = "resolve"
            /\ m_ret' = m_ret
    /\ UNCHANGED <<project_metadata, cargo_toml, kernel_pkg, bootloader_pkg, build_config,
                   envVars, runVars, suiteVars, diskVars, artifactVars,
                   otherBuilderVars>>

\* The lookup of the features in the resolve graph, the push of "binary" and
\* the construction of the BuildConfig.
ResolveAndBuildConfig ==
    /\ m_pc = "resolve"
    /\ LET pkg == Unwrap(bootloader_pkg)
           resolved == ResolveFeatures(project_metadata, pkg)
       IN  IF resolved.err # ""
           THEN /\ m_ret' = Failed(resolved.err)
                /\ build_config' = build_config
           ELSE /\ m_ret' = Done
                /\ build_config' =
                     {MakeBuildConfig(project_metadata, pkg, cargo_toml,
                                      Features(resolved.features, binary_feature),
                                      Unwrap(kernel_pkg))}
    /\ m_pc' = "done"
    /\ UNCHANGED <<project_metadata, cargo_toml, kernel_pkg, bootloader_pkg, binary_feature,
                   envVars, runVars, suiteVars, diskVars, artifactVars,
                   otherBuilderVars>>

\* bootloader_build_config.build_command() in create_bootimage.
BootloaderBuildCommand ==
    /\ m_pc = "done"
    /\ m_ret = Done
    /\ bootloader_cmd' = {build_command(Unwrap(build_config), ambient_env)}
    /\ m_pc' = "command"
    /\ UNCHANGED <<project_metadata, cargo_toml, kernel_pkg, bootloader_pkg, binary_feature,
                   build_config, m_ret, ambient_env, runVars, suiteVars, diskVars, artifactVars,
                   otherBuilderVars>>

MetaNext ==
    \/ FindKernelPackage
    \/ BootloaderPackage
    \/ ReadCargoToml
    \/ ResolveAndBuildConfig
    \/ BootloaderBuildCommand

MetaIdle ==
    /\ m_pc = "idle"
    /\ project_metadata = [packages |-> <<>>, resolve |-> {}, target_directory |-> ""]
    /\ cargo_toml = [readable |-> FALSE, target |-> {}, binary |-> FALSE, build_std |-> {}]
    /\ kernel_pkg = {}
    /\ bootloader_pkg = {}
    /\ binary_feature = FALSE
    /\ build_config = {}
    /\ m_ret = NoResult
    /\ ambient_env = [n \in EnvNames |-> {}]
    /\ bootloader_cmd = {}

-----------------------------------------------------------------------------
(***************************************************************************)
(* create_iso_image() (src/src/builder/disk_image.rs): the staging         *)
(* directory, the boot menu, the copy of the bootloader and grub-mkrescue. *)
(* The function may be called again on the same staging directory.         *)
(***************************************************************************)

MaxCalls == 2

BinNames == {"os", "test-a"}

ElfSizes == {700, 4096}

IsoSizes == {0, 700, 1024}

MkrescueStderrs == {"", "grub-mkrescue: error: xorriso not found"}

\* The format!() of the boot menu: one entry, named after the binary.
GrubCfg(bin_name) == [menuentry |-> bin_name, multiboot2 |-> "/boot/kernel.elf"]

\* What create_dir / create_dir_all can report for a path in a given state.
CreateDirResults(exists) == IF exists THEN {"AlreadyExists"} ELSE {"Ok", "PermissionDenied"}

\* A variant of the match that lets every error through.
TolerateAlreadyExists_Strict(result, message) ==
    IF result = "Ok" THEN Done ELSE Failed("Io:" \o message)

\* match std::fs::create_dir(..) { Ok => Ok, Err(e) if AlreadyExists => Ok, Err(e) => Err(Io) }
TolerateAlreadyExists(result, message) ==
    IF result \in {"Ok", "AlreadyExists"} THEN Done ELSE Failed("Io:" \o message)

IsoInit ==
    /\ i_pc = "isodir"
    /\ i_args \in [bin_name : BinNames, elf_len : ElfSizes]
    /\ \/ isodir = "absent" /\ grub_dir = FALSE
       \/ isodir = "file" /\ grub_dir = FALSE
       \/ isodir = "dir" /\ grub_dir \in BOOLEAN
    /\ grub_cfg = {}
    /\ kernel_elf = {}
    /\ iso = {}
    /\ mkrescue_output = {}
    /\ i_ret = NoResult
    /\ i_rets = <<>>
    /\ i_at_call = [isodir |-> isodir, grub_dir |-> grub_dir]

\* std::fs::create_dir(isodir)
CreateIsodir ==
    /\ i_pc = "isodir"
    /\ \E result \in CreateDirResults(isodir # "absent") :
          LET r == TolerateAlreadyExists(result, "failed to create isodir") IN
          /\ isodir' = IF result = "Ok" THEN "dir" ELSE isodir
          /\ IF r = Done
             THEN i_pc' = "grub_dir" /\ i_ret' = i_ret
             ELSE i_pc' = "done" /\ i_ret' = r
    /\ UNCHANGED <<i_args, grub_dir, grub_cfg, kernel_elf, iso, mkrescue_output, i_rets, i_at_call,
                   runVars, suiteVars, diskVars, artifactVars, metaVars, cacheVars, pipeVars>>

\* std::fs::create_dir_all(isodir/boot/grub): under a path that is a file it
\* fails with NotADirectory, on an existing directory it succeeds.
CreateGrubDir ==
    /\ i_pc = "grub_dir"
    /\ \E result \in IF isodir = "file" THEN {"NotADirectory"}
                     ELSE IF grub_dir THEN {"Ok"}
                     ELSE {"Ok", "AlreadyExists", "PermissionDenied"} :
          LET r == TolerateAlreadyExists(result, "failed to create boot/grub") IN
          /\ grub_dir' = (grub_dir \/ result \in {"Ok", "AlreadyExists"})
          /\ IF r = Done
             THEN i_pc' = "open_cfg" /\ i_ret' = i_ret
             ELSE i_pc' = "done" /\ i_ret' = r
    /\ UNCHANGED <<i_args, isodir, grub_cfg, kernel_elf, iso, mkrescue_output, i_rets, i_at_call,
                   runVars, suiteVars, diskVars, artifactVars, metaVars, cacheVars, pipeVars>>

\* OpenOptions::new().create(true).write(true).truncate(true).open(grub.cfg)
OpenGrubCfg ==
    /\ i_pc = "open_cfg"
    /\ \/ /\ grub_cfg' = {[menuentry |-> "", multiboot2 |-> ""]}
          /\ i_pc' = "write_cfg"
          /\ i_ret' = i_ret
       \/ /\ i_pc' = "done"
          /\ i_ret' = Failed("Io:failed to open grub.cfg")
          /\ UNCHANGED grub_cfg
    /\ UNCHANGED <<i_args, isodir, grub_dir, kernel_elf, iso, mkrescue_output, i_rets, i_at_call,
                   runVars, suiteVars, diskVars, artifactVars, metaVars, cacheVars, pipeVars>>

\* grubcfg.write(format!(..).as_bytes())
WriteGrubCfg ==
    /\ i_pc = "write_cfg"
    /\ \/ /\ grub_cfg' = {GrubCfg(i_args.bin_name)}
          /\ i_pc' = "copy"
          /\ i_ret' = i_ret
       \/ /\ i_pc' = "done"
          /\ i_ret' = Failed("Io:failed to write grub.cfg")
          /\ UNCHANGED grub_cfg
    /\ UNCHANGED <<i_args, isodir, grub_dir, kernel_elf, iso, mkrescue_output, i_rets, i_at_call,
                   runVars, suiteVars, diskVars, artifactVars, metaVars, cacheVars, pipeVars>>

\* std::fs::copy(bootloader_elf_path, isodir/boot/kernel.elf)
CopyKernelElf ==
    /\ i_pc = "copy"
    /\ \/ /\ kernel_elf' = {i_args.elf_len}
          /\ i_pc' = "mkrescue"
          /\ i_ret' = i_ret
       \/ /\ i_pc' = "done"
          /\ i_ret' = Failed("Io:failed to create kernel.elf")
          /\ UNCHANGED kernel_elf
    /\ UNCHANGED <<i_args, isodir, grub_dir, grub_cfg, iso, mkrescue_output, i_rets, i_at_call,
                   runVars, suiteVars, diskVars, artifactVars, metaVars, cacheVars, pipeVars>>

\* grub-mkrescue -o output_bin_path isodir, then Ok(()): nothing follows the
\* tool's success.
GrubMkrescue ==
    /\ i_pc = "mkrescue"
    /\ i_pc' = "done"
    /\ \/ /\ i_ret' = Failed("Io:failed to execute grub-mkrescue command")
          /\ UNCHANGED <<iso, mkrescue_output>>
       \/ \E stderr \in MkrescueStderrs :
          /\ mkrescue_output' = {[success |-> FALSE, stderr |-> stderr, len |-> {}]}
          /\ i_ret' = Failed("MkResuceFailed:" \o stderr)
          /\ UNCHANGED iso
       \/ \E n \in IsoSizes :
          /\ mkrescue_output' = {[success |-> TRUE, stderr |-> "", len |-> {n}]}
          /\ iso' = {n}
          /\ i_ret' = Done
    /\ UNCHANGED <<i_args, isodir, grub_dir, grub_cfg, kernel_elf, i_rets, i_at_call,
                   runVars, suiteVars, diskVars, artifactVars, metaVars, cacheVars, pipeVars>>

\* create_iso_image() is called again with the same arguments, on what the
\* earlier call left behind.
CreateIsoImageAgain ==
    /\ i_pc = "done"
    /\ Len(i_rets) + 1 < MaxCalls
    /\ i_rets' = Append(i_rets, i_ret)
    /\ i_at_call' = [isodir |-> isodir, grub_dir |-> grub_dir]
    /\ i_pc' = "isodir"
    /\ i_ret' = NoResult
    /\ mkrescue_output' = {}
    /\ UNCHANGED <<i_args, isodir, grub_dir, grub_cfg, kernel_elf, iso,
                   runVars, suiteVars, diskVars, artifactVars, metaVars, cacheVars, pipeVars>>

IsoNext ==
    \/ CreateIsodir
    \/ CreateGrubDir
    \/ OpenGrubCfg
    \/ WriteGrubCfg
    \/ CopyKernelElf
    \/ GrubMkrescue
    \/ CreateIsoImageAgain

IsoIdle ==
    /\ i_pc = "idle"
    /\ i_args = [bin_name |-> "", elf_len |-> 0]
    /\ isodir = "absent"
    /\ grub_dir = FALSE
    /\ grub_cfg = {}
    /\ kernel_elf = {}
    /\ iso = {}
    /\ mkrescue_output = {}
    /\ i_ret = NoResult
    /\ i_rets = <<>>
    /\ i_at_call = [isodir |-> "absent", grub_dir |-> FALSE]

-----------------------------------------------------------------------------
(***************************************************************************)
(* Builder (src/src/builder/mod.rs): Builder::new, the project_metadata    *)
(* field and project_metadata(), called by kernel_package_for_bin() and    *)
(* by create_bootimage().  Several Builder instances may live at once, and  *)
(* the project may change between two calls.                               *)
(***************************************************************************)

MaxVersions == 2

MaxMetadataCalls == 3

Builders == {1, 2}

ManifestPaths == {"os/Cargo.toml", "kernel/Cargo.toml"}

BinTargets == {"os", "test-a"}

\* What cargo metadata reports for a manifest in a state of the project: from
\* the second state on the package has the test binary too.
Metadata(manifest_path, version) ==
    [workspace_root |-> Parent(manifest_path),
     version |-> version,
     bins |-> IF version = 1 THEN {"os"} ELSE BinTargets]

\* The outcomes of MetadataCommand::new().manifest_path(..).exec().
ExecResults(manifest_path, version) ==
    {[ok |-> FALSE, metadata |-> {}], [ok |-> TRUE, metadata |-> {Metadata(manifest_path, version)}]}

\* A variant of project_metadata() that returns the metadata without storing it.
Builder_project_metadata_NoInsert(self, exec) ==
    IF self.project_metadata # {}
    THEN [self |-> self, invoked |-> FALSE, result |-> self.project_metadata, err |-> ""]
    ELSE IF ~exec.ok
    THEN [self |-> self, invoked |-> TRUE, result |-> {}, err |-> "CargoMetadata"]
    ELSE [self |-> self, invoked |-> TRUE, result |-> exec.metadata, err |-> ""]

\* fn project_metadata(&mut self): the cached value if there is one, else
\* exec()?, then get_or_insert.  `exec` is what the provider returns if asked.
Builder_project_metadata(self, exec) ==
    IF self.project_metadata # {}
    THEN [self |-> self, invoked |-> FALSE, result |-> self.project_metadata, err |-> ""]
    ELSE IF ~exec.ok
    THEN [self |-> self, invoked |-> TRUE, result |-> {}, err |-> "CargoMetadata"]
    ELSE [self |-> [self EXCEPT !.project_metadata = exec.metadata],
          invoked |-> TRUE, result |-> exec.metadata, err |-> ""]

CacheInit ==
    /\ builders = [b \in Builders |-> {}]
    /\ workspace_version = 1
    /\ c_hist = [b \in Builders |-> <<>>]
    /\ c_ret = [b \in Builders |-> NoResult]

\* Builder::new(manifest_path): the manifest is given, taken from
\* CARGO_MANIFEST_DIR or located; locating can fail.
BuilderNew(b) ==
    /\ builders[b] = {}
    /\ \/ \E path \in ManifestPaths :
             /\ builders' = [builders EXCEPT ![b] = {[manifest_path |-> path, project_metadata |-> {}]}]
             /\ c_ret' = [c_ret EXCEPT ![b] = Done]
       \/ /\ c_ret[b] = NoResult
          /\ c_ret' = [c_ret EXCEPT ![b] = Failed("LocateCargoManifest")]
          /\ UNCHANGED builders
    /\ UNCHANGED <<workspace_version, c_hist, componentVars, isoVars, pipeVars>>

\* kernel_package_for_bin(kernel_bin_name): project_metadata()?, then the
\* package that has a bin target of that name.
KernelPackageForBin(b) ==
    /\ builders[b] # {}
    /\ Len(c_hist[b]) < MaxMetadataCalls
    /\ \E kernel_bin_name \in BinTargets,
          exec \in ExecResults(Unwrap(builders[b]).manifest_path, workspace_version) :
          LET call == Builder_project_metadata(Unwrap(builders[b]), exec) IN
          /\ builders' = [builders EXCEPT ![b] = {call.self}]
          /\ c_hist' = [c_hist EXCEPT ![b] = Append(@, [invoked |-> call.invoked,
                                                         result |-> call.result,
                                                         err |-> call.err,
                                                         at |-> workspace_version])]
          /\ c_ret' = [c_ret EXCEPT ![b] =
                          IF call.err # "" THEN Failed(call.err)
                          ELSE [kind |-> "Ok", err |-> "",
                                package |-> IF kernel_bin_name \in Unwrap(call.result).bins
                                            THEN {Unwrap(call.result).workspace_root}
                                            ELSE {}]]
    /\ UNCHANGED <<workspace_version, componentVars, isoVars, pipeVars>>

\* The project is edited between two calls.
WorkspaceChanges ==
    /\ workspace_version < MaxVersions
    /\ workspace_version' = workspace_version + 1
    /\ UNCHANGED <<builders, c_hist, c_ret, componentVars, isoVars, pipeVars>>

CacheNext ==
    \/ \E b \in Builders : BuilderNew(b)
    \/ \E b \in Builders : KernelPackageForBin(b)
    \/ WorkspaceChanges

CacheIdle ==
    /\ builders = [b \in Builders |-> {}]
    /\ workspace_version = 0
    /\ c_hist = [b \in Builders |-> <<>>]
    /\ c_ret = [b \in Builders |-> NoResult]

-----------------------------------------------------------------------------
(***************************************************************************)
(* create_bootimage() (src/src/builder/mod.rs): project_metadata(), then   *)
(* BuildConfig::from_metadata(), the bootloader build, the build with      *)
(* --message-format json and the scan of its output, and                   *)
(* disk_image::create_disk_image().  The steps of from_metadata(), of the   *)
(* scan and of create_disk_image() are the actions above; each `?` hands    *)
(* the result of a step to create_bootimage().                             *)
(***************************************************************************)

\* The projects create_bootimage() is run on: no kernel package, a kernel
\* without a bootloader, and a kernel that depends on the bootloader crate; the
\* resolve graph missing or present; the Cargo.toml of the bootloader unreadable
\* or complete; the environment of a plain shell; no image on disk yet.
PipeInputs ==
    /\ project_metadata.packages \in
          {<<>>,
           <<KernelPackage(<<>>)>>,
           <<KernelPackage(<<[name |-> "bootloader", rename |-> {}]>>), BootloaderCrate>>}
    /\ project_metadata.resolve \in
          {{}, {<<[id |-> BootloaderCrate.id, features |-> <<"binary", "map_physical_memory">>]>>}}
    /\ cargo_toml.readable => cargo_toml.binary
    /\ ambient_env = [n \in EnvNames |-> {}]
    /\ image = {}

PipeInit ==
    /\ b_pc = "metadata"
    /\ b_steps = <<>>
    /\ b_ret = NoResult
    /\ MetaInit
    /\ ArtifactInit
    /\ DiskInit
    /\ PipeInputs

\* self.project_metadata()?
ProjectMetadata ==
    /\ b_pc = "metadata"
    /\ \/ /\ b_pc' = "config"
          /\ b_steps' = Append(b_steps, "metadata")
          /\ b_ret' = b_ret
       \/ /\ b_pc' = "done"
          /\ b_ret' = Failed("CargoMetadata")
          /\ b_steps' = b_steps
    /\ UNCHANGED <<runVars, suiteVars, diskVars, artifactVars, metaVars, isoVars, cacheVars>>

\* The steps of bootloader::BuildConfig::from_metadata(..).
FromMetadata ==
    /\ b_pc = "config"
    /\ \/ FindKernelPackage
       \/ BootloaderPackage
       \/ ReadCargoToml
       \/ ResolveAndBuildConfig

\* from_metadata(..)? : its error is the error of create_bootimage().
FromMetadataReturns ==
    /\ b_pc = "config"
    /\ m_pc = "done"
    /\ IF m_ret = Done
       THEN /\ b_pc' = "build"
            /\ b_steps' = Append(b_steps, "config")
            /\ b_ret' = b_ret
       ELSE /\ b_pc' = "done"
            /\ b_ret' = m_ret
            /\ b_steps' = b_steps
    /\ UNCHANGED <<runVars, suiteVars, diskVars, artifactVars, metaVars, isoVars, cacheVars>>

\* build_command(), cmd.output() and the test of the status.
BuildBootloader ==
    /\ b_pc = "build"
    /\ bootloader_cmd' = {build_command(Unwrap(build_config), ambient_env)}
    /\ \/ /\ b_pc' = "done"
          /\ b_ret' = Failed("Io:failed to execute bootloader build command")
          /\ b_steps' = b_steps
       \/ /\ b_pc' = "done"
          /\ b_ret' = Failed("BootloaderBuildFailed")
          /\ b_steps' = b_steps
       \/ /\ b_pc' = "json"
          /\ b_steps' = Append(b_steps, "build")
          /\ b_ret' = b_ret
    /\ UNCHANGED <<m_pc, project_metadata, cargo_toml, kernel_pkg, bootloader_pkg, binary_feature,
                   build_config, m_ret, ambient_env,
                   runVars, suiteVars, diskVars, artifactVars, isoVars, cacheVars>>

\* The build with --message-format json and the scan of its lines.
RetrieveBinaryPath ==
    /\ b_pc = "json"
    /\ \/ BuildJson
       \/ ScanLine
       \/ ScanEnd

\* A variant that goes on to the disk image whatever the scan returned.
RetrieveBinaryPathReturns_IgnoreError ==
    /\ b_pc = "json"
    /\ a_pc = "done"
    /\ b_pc' = "disk"
    /\ b_steps' = Append(b_steps, "json")
    /\ b_ret' = b_ret
    /\ UNCHANGED <<runVars, suiteVars, diskVars, artifactVars, metaVars, isoVars, cacheVars>>

\* The `?` and the returns of the scan.
RetrieveBinaryPathReturns ==
    /\ b_pc = "json"
    /\ a_pc = "done"
    /\ IF a_ret = Done
       THEN /\ b_pc' = "disk"
            /\ b_steps' = Append(b_steps, "json")
            /\ b_ret' = b_ret
       ELSE /\ b_pc' = "done"
            /\ b_ret' = a_ret
            /\ b_steps' = b_steps
    /\ UNCHANGED <<runVars, suiteVars, diskVars, artifactVars, metaVars, isoVars, cacheVars>>

\* The steps of disk_image::create_disk_image(&bootloader_elf_path, output_bin_path).
CreateDiskImage ==
    /\ b_pc = "disk"
    /\ \/ LlvmToolsNew
       \/ LlvmTool
       \/ Objcopy
       \/ PadOpen
       \/ PadMetadata
       \/ PadSetLen

\* create_disk_image(..)?; Ok(())
CreateDiskImageReturns ==
    /\ b_pc = "disk"
    /\ d_pc = "done"
    /\ b_pc' = "done"
    /\ b_ret' = d_ret
    /\ b_steps' = IF d_ret = Done THEN Append(b_steps, "disk") ELSE b_steps
    /\ UNCHANGED <<runVars, suiteVars, diskVars, artifactVars, metaVars, isoVars, cacheVars>>

PipeNext ==
    \/ ProjectMetadata
    \/ FromMetadata
    \/ FromMetadataReturns
    \/ BuildBootloader
    \/ RetrieveBinaryPath
    \/ RetrieveBinaryPathReturns
    \/ CreateDiskImage
    \/ CreateDiskImageReturns

PipeIdle ==
    /\ b_pc = "idle"
    /\ b_steps = <<>>
    /\ b_ret = NoResult

-----------------------------------------------------------------------------
(***************************************************************************)
(* The specifications.  Each holds the other component at its initial      *)
(* state.                                                                  *)
(***************************************************************************)

SuiteIdle ==
    /\ s_n = 0
    /\ s_phase = "idle"
    /\ s_built = 0
    /\ s_pc = << >>
    /\ s_cmd = << >>
    /\ s_child = << >>
    /\ s_wait = << >>
    /\ s_exit = << >>
    /\ s_out = << >>
    /\ s_verdict = << >>
    /\ s_error = << >>
    /\ files = [p \in Paths |-> {}]
    /\ s_full = FALSE
    /\ s_saved_error = {}
    /\ s_outOfOrder = FALSE
    /\ s_tests = <<>>
    /\ s_report = <<>>
    /\ s_result = NoResult

RunIdle ==
    /\ is_test = FALSE
    /\ test_success_exit_code = {}
    /\ config = [run_command |-> <<>>, test_no_reboot |-> FALSE, test_args |-> {}, run_args |-> {}]
    /\ runner_args = {}
    /\ run_command = <<>>
    /\ pc = "idle"
    /\ child = "none"
    /\ exit_status = {}
    /\ wait_result = "pending"
    /\ ops = <<>>
    /\ ret = NoRet

OtherBuilderIdle == IsoIdle /\ CacheIdle /\ PipeIdle

BuilderIdle == DiskIdle /\ ArtifactIdle /\ MetaIdle /\ OtherBuilderIdle

Init == RunInit /\ SuiteIdle /\ BuilderIdle

Next == RunNext

Spec == Init /\ [][Next]_vars

InitSuite == SuiteInit /\ RunIdle /\ BuilderIdle

NextSuite == SuiteNext

SuiteSpec == InitSuite /\ [][NextSuite]_vars

InitDisk == DiskInit /\ RunIdle /\ SuiteIdle /\ ArtifactIdle /\ MetaIdle /\ OtherBuilderIdle

NextDisk == DiskNext

DiskSpec == InitDisk /\ [][NextDisk]_vars

InitArtifact == ArtifactInit /\ RunIdle /\ SuiteIdle /\ DiskIdle /\ MetaIdle /\ OtherBuilderIdle

NextArtifact == ArtifactNext

ArtifactSpec == InitArtifact /\ [][NextArtifact]_vars

InitMeta == MetaInit /\ RunIdle /\ SuiteIdle /\ DiskIdle /\ ArtifactIdle /\ OtherBuilderIdle

NextMeta == MetaNext

MetaSpec == InitMeta /\ [][NextMeta]_vars

InitIso == IsoInit /\ RunIdle /\ SuiteIdle /\ DiskIdle /\ ArtifactIdle /\ MetaIdle /\ CacheIdle /\ PipeIdle

NextIso == IsoNext

IsoSpec == InitIso /\ [][NextIso]_vars

InitCache == CacheInit /\ RunIdle /\ SuiteIdle /\ DiskIdle /\ ArtifactIdle /\ MetaIdle /\ IsoIdle /\ PipeIdle

NextCache == CacheNext

CacheSpec == InitCache /\ [][NextCache]_vars

InitBootimage == PipeInit /\ RunIdle /\ SuiteIdle /\ IsoIdle /\ CacheIdle

NextBootimage == PipeNext

BootimageSpec == InitBootimage /\ [][NextBootimage]_vars


-----------------------------------------------------------------------------
(***************************************************************************)
(* Properties of run(), checked under Spec.                                *)
(***************************************************************************)

\* run() has returned from a test run after wait_timeout gave the exit status
\* of a process that exited with a raw exit code.
ReturnedWithCode ==
    /\ pc = "done"
    /\ is_test
    /\ wait_result = "Some"
    /\ exit_status # {}

\* C1: in a test run, run() never returns while the process it spawned is
\* unreaped: whenever run() has returned, the process was never spawned or has
\* been reaped, also when wait_timeout, kill or wait failed.
C1_NoUnreapedChildOnReturn ==
    (pc = "done" /\ is_test) => child \in {"none", "reaped"}

\* C2: in a test run whose wait_timeout reported the timeout, run() calls kill,
\* then wait, and returns the Timeout verdict (TestTimedOut).
C2_TimeoutKillsWaitsAndYieldsTimeout ==
    (pc = "done" /\ is_test /\ wait_result = "None") =>
        /\ ops = <<"spawn", "wait_timeout", "kill", "wait">>
        /\ ret = Err("TestTimedOut")

\* C3 (as stated): in a test run where the process exits with a raw code c that
\* differs from the configured success code, run() reports c unchanged.
C3_FailureCodeVerbatim ==
    (ReturnedWithCode /\ exit_status # test_success_exit_code) =>
        ret = Ok(Unwrap(exit_status))

\* C3 (amended): in a test run where the process exits with a raw code c that
\* differs from the configured success code, run() reports c unchanged when c is
\* not 0 or no success code is configured; a raw 0 that differs from a
\* configured success code is reported as 1.
C3_FailureCodeVerbatimUnlessZero ==
    (ReturnedWithCode /\ exit_status # test_success_exit_code) =>
        /\ ret.kind = "Ok"
        /\ (Unwrap(exit_status) # 0 \/ test_success_exit_code = {}) =>
               ret.code = Unwrap(exit_status)
        /\ (Unwrap(exit_status) = 0 /\ test_success_exit_code # {}) => ret.code = 1

\* A test run with a configured success code has returned a raw code that is
\* neither 0 nor the success code, unchanged.
C3_Witness ==
    /\ ReturnedWithCode
    /\ test_success_exit_code # {}
    /\ exit_status # test_success_exit_code
    /\ Unwrap(exit_status) # 0
    /\ ret = Ok(Unwrap(exit_status))

\* C4: in a test run where the process exits with a raw code equal to the
\* configured test-success exit code, run() returns Ok(0), whatever the
\* configured code is.
C4_SuccessCodeYieldsZero ==
    (ReturnedWithCode /\ exit_status = test_success_exit_code) => ret = Ok(0)

\* A test run has returned Ok(0) for a raw code that is not 0 and is the
\* configured success code.
C4_Witness ==
    /\ ReturnedWithCode
    /\ exit_status = test_success_exit_code
    /\ Unwrap(exit_status) # 0
    /\ ret = Ok(0)

\* C14: a plain run is never time-bounded: whatever the configuration, run()
\* makes no timeout wait and no kill, it has not returned while the process is
\* running, and when it returns a code the process has ended on its own and has
\* been waited for.
C14_PlainRunNeverTimeBounded ==
    ~is_test =>
        /\ pc \notin {"wait_timeout", "timed_out", "killed"}
        /\ wait_result = "pending"
        /\ \A k \in 1..Len(ops) : ops[k] \notin {"wait_timeout", "kill"}
        /\ child = "running" => (pc = "status" /\ ret = NoRet)
        /\ ret.kind = "Ok" => (child = "reaped" /\ ops = <<"spawn", "wait">>)

\* A plain run has spawned the process, blocked until it ended and returned.
C14_Witness ==
    /\ ~is_test
    /\ pc = "done"
    /\ ret.kind = "Ok"
    /\ child = "reaped"
    /\ ops = <<"spawn", "wait">>

\* C15: a plain run that waited for its process returns Ok with the raw exit
\* code unchanged when the process has one and Ok(1) when it has none; the
\* configured test-success exit code plays no part.
C15_PlainRunReturnsRawCode ==
    (~is_test /\ pc = "done" /\ child = "reaped") =>
        ret = Ok(IF exit_status = {} THEN 1 ELSE Unwrap(exit_status))

\* A plain run whose process exited with a raw code that is not 0 and is the
\* configured test-success exit code has returned that raw code.
C15_Witness ==
    /\ ~is_test
    /\ pc = "done"
    /\ exit_status # {}
    /\ exit_status = test_success_exit_code
    /\ Unwrap(exit_status) # 0
    /\ ret = Ok(Unwrap(exit_status))

\* The template of the configuration with the image path substituted.
SubstitutedTemplate ==
    IF config.run_command = <<>> THEN <<>>
    ELSE <<"qemu-system-x86_64", "-drive", "format=raw,file=" \o ImagePath>>

\* Some element of args is an element of argv.
Appears(args, argv) ==
    \E j \in 1..Len(args) : \E k \in 1..Len(argv) : argv[k] = args[j]

\* C16: once run() has built the argv, it is the template with the image path
\* substituted for "{}", then in a test run "-no-reboot" (only if test_no_reboot)
\* and the test arguments, or in a plain run the run arguments, then the runner
\* arguments last; the run arguments never appear in a test run, and "-no-reboot"
\* and the test arguments never appear in a plain run.
C16_ArgvOrder ==
    pc \notin {"args", "idle"} =>
        LET no_reboot == IF is_test /\ config.test_no_reboot THEN <<"-no-reboot">> ELSE <<>>
            test_args == IF is_test THEN Extend(config.test_args) ELSE <<>>
            run_args == IF is_test THEN <<>> ELSE Extend(config.run_args)
        IN  /\ run_command = SubstitutedTemplate \o no_reboot \o test_args \o run_args
                                 \o Extend(runner_args)
            /\ is_test => ~Appears(Extend(config.run_args), run_command)
            /\ ~is_test => /\ ~Appears(<<"-no-reboot">>, run_command)
                           /\ ~Appears(Extend(config.test_args), run_command)

\* A test run with the default template, test_no_reboot, test arguments, run
\* arguments and runner arguments has spawned the emulator.
C16_Witness ==
    /\ is_test
    /\ config.test_no_reboot
    /\ config.run_args # {}
    /\ child = "running"
    /\ run_command = <<"qemu-system-x86_64", "-drive", "format=raw,file=" \o ImagePath,
                       "-no-reboot", "-display", "none", "-serial", "stdio">>

\* C17: a test run whose process ended without an exit code, as wait_timeout
\* reported, returns Err(NoQemuExitCode), whatever success code is configured.
C17_NoExitCodeIsNeverSuccess ==
    (pc = "done" /\ is_test /\ wait_result = "Some" /\ exit_status = {}) =>
        ret = Err("NoQemuExitCode")

\* A test run without a configured success code has returned NoQemuExitCode for
\* a process that was terminated by a signal.
C17_Witness ==
    /\ pc = "done"
    /\ is_test
    /\ wait_result = "Some"
    /\ exit_status = {}
    /\ test_success_exit_code = {}
    /\ ret = Err("NoQemuExitCode")

\* C18: run() returns Ok or Err for every configuration, the empty command
\* template included: it never panics.
C18_RunNeverPanics ==
    pc = "done" => ret.kind \in {"Ok", "Err"}

-----------------------------------------------------------------------------
(***************************************************************************)
(* Properties of test(), checked under SuiteSpec.                          *)
(***************************************************************************)

\* test() has returned and every test of the suite reached a verdict.
DoneWithVerdicts ==
    /\ s_phase = "done"
    /\ \A i \in Tests : s_pc[i] = "verdict"

\* Whether the report has a line for test i.
Reported(i) == \E k \in 1..Len(s_report) : s_report[k][1] = TargetNames[i]

\* The build loop ended at test i, whose own build failed.
BuildFailedAt(i) == s_phase = "done" /\ s_built < s_n /\ i = s_built + 1

\* The failure of test i is surfaced: the report has a line for it, or what
\* test() returned is the error of test i's own closure or of its own build.
Surfaced(i) ==
    \/ Reported(i)
    \/ s_pc[i] = "error" /\ s_result = [kind |-> "Err", err |-> s_error[i]]
    \/ BuildFailedAt(i)

\* C5: whatever goes wrong for one test, every other test of the suite is still
\* run to a verdict (or to a failure of its own), and every test that did not
\* succeed is surfaced individually.
C5_SiblingsRunAndFailuresReported ==
    s_phase = "done" =>
        \A i \in Tests :
            /\ Terminal(s_pc[i]) \/ BuildFailedAt(i)
            /\ s_verdict[i] # "Ok" => Surfaced(i)

C7_OverallSuccessIffAllOk ==
    s_phase = "done" =>
        /\ s_result.kind = "Ok" <=> \A i \in Tests : s_verdict[i] = "Ok"
        /\ (\E i \in Tests : s_verdict[i] \in {"TimedOut", "Failed", "Invalid"}) =>
               s_result.kind = "Err"

\* A suite has ended in error with one test Ok and another Failed.
C7_Witness ==
    /\ DoneWithVerdicts
    /\ \E i, j \in Tests : s_verdict[i] = "Ok" /\ s_verdict[j] = "Failed"
    /\ s_result = [kind |-> "Err", err |-> "Some tests failed"]

\* The verdict that test i's own execution determines: TimedOut when its own
\* timeout elapsed, else what its own exit status and its own guest's output give.
OwnVerdict(i) ==
    IF s_wait[i] = "None" THEN "TimedOut"
    ELSE handle_exit_status(s_exit[i], s_out[i])

\* C8: for every interleaving and completion order, the verdict recorded for a
\* test is the one its own execution determines, and the final report and the
\* overall status are those of these verdicts, in the order of the test list.
C8_VerdictsIndependentOfInterleaving ==
    /\ \A i \in Tests : s_pc[i] = "verdict" => s_verdict[i] = OwnVerdict(i)
    /\ (DoneWithVerdicts /\ s_result.kind # "none") =>
          /\ s_tests = [i \in Tests |-> <<TargetNames[i], OwnVerdict(i)>>]
          /\ s_result.kind = "Ok" <=> \A i \in Tests : OwnVerdict(i) = "Ok"

\* A suite of several tests has reported after a test ended before an earlier
\* one of the list, one of them timed out and killed.
C8_Witness ==
    /\ DoneWithVerdicts
    /\ s_n >= 2
    /\ s_outOfOrder
    /\ \E i, j \in Tests : s_verdict[i] = "TimedOut" /\ s_verdict[j] = "Ok"
    /\ Len(s_tests) = s_n

\* The serial file argument of test i's emulator command.
SerialArg(i) == s_cmd[i][9]

\* C9: any two distinct tests of a suite whose emulators were spawned were given
\* different serial output files.
C9_DistinctOutputFiles ==
    \A i, j \in Tests :
        (i # j /\ s_cmd[i] # <<>> /\ s_cmd[j] # <<>>) => SerialArg(i) # SerialArg(j)

\* Two emulators of one suite run at the same time.
C9_Witness ==
    \E i, j \in Tests : i # j /\ s_child[i] = "running" /\ s_child[j] = "running"

\* Tests i and j both have a verdict and their emulators ended the same way.
SameEnding(i, j) ==
    /\ s_pc[i] = "verdict"
    /\ s_pc[j] = "verdict"
    /\ s_wait[i] = s_wait[j]
    /\ s_exit[i] = s_exit[j]

\* C10 (as stated): two executions whose emulators ended the same way get the
\* same verdict, whatever the guests wrote to the serial output.
C10_VerdictFromEndingOnly ==
    \A i, j \in Tests : SameEnding(i, j) => s_verdict[i] = s_verdict[j]

\* C10 (amended): two executions whose emulators ended the same way get the
\* same verdict whatever the guests wrote, unless the raw exit code is 1; for
\* raw code 1 the verdict is decided by how the captured output starts.
C10_VerdictFromEndingUnlessCodeOne ==
    \A i, j \in Tests :
        SameEnding(i, j) =>
            /\ s_exit[i] # {1} => s_verdict[i] = s_verdict[j]
            /\ ( /\ StartsWith(s_out[i], OkLine) <=> StartsWith(s_out[j], OkLine)
                 /\ StartsWith(s_out[i], FailedLine) <=> StartsWith(s_out[j], FailedLine) )
               => s_verdict[i] = s_verdict[j]

\* Two tests exited with the same raw code, not 1, wrote different outputs and
\* have their verdicts.
C10_Witness ==
    \E i, j \in Tests :
        /\ SameEnding(i, j)
        /\ s_exit[i] # {}
        /\ s_exit[i] # {1}
        /\ s_out[i] # s_out[j]
        /\ s_verdict[i] = s_verdict[j]


-----------------------------------------------------------------------------
(***************************************************************************)
(* Properties of create_disk_image(), checked under DiskSpec.              *)
(***************************************************************************)

\* C11: once llvm-objcopy has written the image, the file is never shorter than
\* what llvm-objcopy wrote, and when create_disk_image has returned Ok the
\* length of the image is the smallest multiple of 512 that is at least the
\* length llvm-objcopy wrote: a multiple of 512, for every objcopy length.
C11_PaddedToSmallestBlockMultiple ==
    /\ objcopy_len # {} => (image # {} /\ Unwrap(image) >= Unwrap(objcopy_len))
    /\ d_ret = Done =>
          /\ objcopy_len # {}
          /\ Unwrap(image) % 512 = 0
          /\ Unwrap(image) - Unwrap(objcopy_len) < 512

\* create_disk_image has returned Ok for an objcopy output that is longer than
\* one block and not aligned: the image is two blocks long.
C11_Witness ==
    /\ d_ret = Done
    /\ Unwrap(objcopy_len) > BLOCK_SIZE
    /\ Unwrap(objcopy_len) % BLOCK_SIZE # 0
    /\ Unwrap(image) = 2 * BLOCK_SIZE

\* C12: the padding is idempotent: padding an already aligned file leaves its
\* length unchanged, and padding a file twice gives the length that padding it
\* once gives.
C12_PaddingIdempotent ==
    /\ \A n \in FileSizes :
          LET once == n + Padding(n)
          IN  /\ once + Padding(once) = once
              /\ n % BLOCK_SIZE = 0 => once = n
    /\ d_ret = Done =>
          /\ Unwrap(image) + Padding(Unwrap(image)) = Unwrap(image)
          /\ Unwrap(objcopy_len) % BLOCK_SIZE = 0 => image = objcopy_len

\* create_disk_image has returned Ok for an objcopy output that is not empty and
\* already aligned: the image has the length llvm-objcopy wrote.
C12_Witness ==
    /\ d_ret = Done
    /\ Unwrap(objcopy_len) > 0
    /\ Unwrap(objcopy_len) % BLOCK_SIZE = 0
    /\ image = objcopy_len


-----------------------------------------------------------------------------
(***************************************************************************)
(* Properties of the artifact resolution, checked under ArtifactSpec.      *)
(***************************************************************************)

HasExecutable(line) == line.json /\ line.executable # {}

\* The `executable` records of a build stream, in order.
ExecutableRecords(lines) == SelectSeq(lines, HasExecutable)

\* Every line of the stream is a JSON record.
IsRecordStream(lines) == \A k \in 1..Len(lines) : lines[k].json

\* The resolution has returned after it obtained the build stream.
Resolved ==
    /\ a_pc = "done"
    /\ a_ret.err \notin {"Io:failed to execute bootloader build command with json output",
                         "BootloaderBuildFailed", "BuildJsonOutputInvalidUtf8"}

\* C13: over a build stream of JSON records, the artifact resolution fails with
\* 'bootloader has no executable' when no record has an `executable`, fails with
\* 'bootloader has multiple executables' when two or more records have one, and
\* yields the path of the record unchanged when exactly one record has one.
C13_ArtifactResolution ==
    (Resolved /\ IsRecordStream(stdout_lines)) =>
        LET found == ExecutableRecords(stdout_lines)
        IN  /\ Len(found) = 0 =>
                  a_ret = Failed("BootloaderInvalid:bootloader has no executable")
            /\ Len(found) >= 2 =>
                  a_ret = Failed("BootloaderInvalid:bootloader has multiple executables")
            /\ Len(found) = 1 =>
                  (a_ret = Done /\ bootloader_elf_path = found[1].executable)

\* A stream of three records, of which only the second has an `executable`, has
\* been resolved to the path of that record.
C13_Witness ==
    /\ Resolved
    /\ IsRecordStream(stdout_lines)
    /\ Len(stdout_lines) = 3
    /\ Len(ExecutableRecords(stdout_lines)) = 1
    /\ stdout_lines[2].executable # {}
    /\ a_ret = Done
    /\ bootloader_elf_path = stdout_lines[2].executable


-----------------------------------------------------------------------------
(***************************************************************************)
(* Properties of BuildConfig::from_metadata(), checked under MetaSpec.     *)
(***************************************************************************)

\* The lookup of the bootloader package has been made.
LookedUp == kernel_pkg # {} /\ m_pc \notin {"kernel_pkg", "bootloader_pkg"}

\* The dependencies of the kernel package, in declared order.
KernelDeps == Unwrap(kernel_pkg).dependencies

\* Dependency k is declared under the name "bootloader": by its rename when it
\* has one, else by its name.
DeclaredAsBootloader(k) ==
    \/ KernelDeps[k].rename = {"bootloader"}
    \/ KernelDeps[k].rename = {} /\ KernelDeps[k].name = "bootloader"

\* C19: the bootloader is the first dependency of the kernel package, in
\* declared order, whose rename (or name, without a rename) is "bootloader";
\* from_metadata goes on with the first package that has the name of that
\* dependency.  Without such a dependency it fails with BootloaderNotFound: a
\* dependency named bootloader but renamed to something else is not a match.
C19_FirstDependencyNamedBootloader ==
    LookedUp =>
        /\ (\A k \in 1..Len(KernelDeps) : ~DeclaredAsBootloader(k)) =>
               (m_ret = Failed("BootloaderNotFound") /\ bootloader_pkg = {})
        /\ \A k \in 1..Len(KernelDeps) :
               (DeclaredAsBootloader(k) /\ \A j \in 1..(k - 1) : ~DeclaredAsBootloader(j)) =>
                   /\ m_ret # Failed("BootloaderNotFound")
                   /\ bootloader_pkg # {} => Unwrap(bootloader_pkg).name = KernelDeps[k].name
                   /\ bootloader_pkg = {} =>
                          /\ m_ret.kind = "Err"
                          /\ \A q \in 1..Len(project_metadata.packages) :
                                 project_metadata.packages[q].name # KernelDeps[k].name

\* The kernel declares the dependency bootloader renamed to boot and then the
\* dependency bootloader_fork renamed to bootloader: the package of the fork
\* has been found.
C19_Witness ==
    /\ LookedUp
    /\ KernelDeps = <<[name |-> "bootloader", rename |-> {"boot"}],
                      [name |-> "bootloader_fork", rename |-> {"bootloader"}]>>
    /\ bootloader_pkg = {BootloaderFork}
    /\ BootloaderCrate \in {project_metadata.packages[q] : q \in 1..Len(project_metadata.packages)}

\* from_metadata has come to the lookup in the resolve graph and has returned.
ResolveLookedUp ==
    /\ m_pc = "done"
    /\ bootloader_pkg # {}
    /\ cargo_toml.readable
    /\ cargo_toml.target # {}

\* The nodes of the resolve graph whose id is the id of the bootloader package.
BootloaderNodes ==
    {n \in {Unwrap(project_metadata.resolve)[k] :
                k \in 1..Len(Unwrap(project_metadata.resolve))} :
        n.id = Unwrap(bootloader_pkg).id}

\* C20: from_metadata fails with CargoMetadataIncomplete, key resolve, when the
\* metadata has no resolve graph, and with CargoMetadataIncomplete, the key
\* naming the node of the bootloader, when no node of the graph has the id of
\* the bootloader package; it returns a BuildConfig only with the features of
\* such a node and never with an empty list in place of a missing node.
C20_MissingResolveIsAnError ==
    /\ ResolveLookedUp =>
          /\ project_metadata.resolve = {} =>
                 (m_ret = Failed("CargoMetadataIncomplete:resolve") /\ build_config = {})
          /\ (project_metadata.resolve # {} /\ BootloaderNodes = {}) =>
                 /\ m_ret = Failed("CargoMetadataIncomplete:resolve["
                                   \o Unwrap(bootloader_pkg).name \o "]")
                 /\ build_config = {}
    /\ m_ret = Done =>
          /\ project_metadata.resolve # {}
          /\ \E n \in BootloaderNodes :
                 Unwrap(build_config).features =
                     n.features \o (IF cargo_toml.binary THEN <<"binary">> ELSE <<>>)

\* The bootloader package was found and its Cargo.toml is valid, the resolve
\* graph has a node but none for the bootloader: from_metadata has failed with
\* the key of the missing node.
C20_Witness ==
    /\ ResolveLookedUp
    /\ bootloader_pkg = {BootloaderCrate}
    /\ project_metadata.resolve # {}
    /\ Unwrap(project_metadata.resolve) # <<>>
    /\ BootloaderNodes = {}
    /\ m_ret = Failed("CargoMetadataIncomplete:resolve[bootloader]")


\* The elements of a sequence.
ToSet(seq) == {seq[k] : k \in 1..Len(seq)}

\* The argument that follows the given flag in the arguments of a command.
ArgOf(cmd, flag) ==
    {cmd.args[k + 1] : k \in {j \in 1..(Len(cmd.args) - 1) : cmd.args[j] = flag}}

\* C21: the features of the BuildConfig are, as a set, the features the resolve
\* graph enables for the bootloader package, with `binary` added exactly when the
\* manifest of the bootloader declares a feature of that name; the build command
\* passes them, joined by spaces, as its --features argument.
C21_FeaturesAreResolvedPlusBinary ==
    /\ m_ret = Done =>
          \E n \in BootloaderNodes :
              ToSet(Unwrap(build_config).features) =
                  ToSet(n.features) \cup (IF cargo_toml.binary THEN {"binary"} ELSE {})
    /\ bootloader_cmd # {} =>
          ArgOf(Unwrap(bootloader_cmd), "--features") =
              {Join(Unwrap(build_config).features, " ")}

\* The resolve graph enables binary and map_physical_memory for the bootloader
\* and its manifest declares the binary feature: the command has been built with
\* those features.
C21_Witness ==
    /\ bootloader_cmd # {}
    /\ cargo_toml.binary
    /\ \E n \in BootloaderNodes : n.features = <<"binary", "map_physical_memory">>
    /\ ArgOf(Unwrap(bootloader_cmd), "--features") = {"binary map_physical_memory binary"}

\* The BuildConfigs that bootloader packages, manifests, feature lists and kernel
\* binaries give in the workspace of the current metadata.
WorkspaceConfigs ==
    LET configs ==
            {MakeBuildConfig(project_metadata, pkg, toml,
                             Features(n.features, toml.binary), Unwrap(kernel_pkg)) :
                pkg \in {BootloaderCrate, BootloaderFork},
                toml \in {t \in CargoTomls : t.readable /\ t.target # {}},
                n \in UNION {ToSet(nodes) : nodes \in ResolveNodes}}
    IN  {[c EXCEPT !.kernel_bin_path = bin] :
            c \in configs, bin \in {KernelBinPath, "os/target/x86_64-os/debug/test-a"}}

\* The target directory and the sysroot path are those of the namespacing.
Namespaced(cfg, cmd) ==
    /\ cfg.target_dir = project_metadata.target_directory \o "/bootimage/"
                            \o cfg.bootloader_name
    /\ cmd.env.XBUILD_SYSROOT_PATH = {cfg.target_dir \o "/bootloader-sysroot"}
    /\ ArgOf(cmd, "--target-dir") = {cfg.target_dir}

\* C22 (as stated): the target directory of the bootloader build is
\* <target_directory>/bootimage/<bootloader name>, the sysroot path lies inside
\* it, and two different bootloader configurations of one workspace never have
\* the same target directory.
C22_DistinctConfigsDistinctDirs ==
    bootloader_cmd # {} =>
        /\ Namespaced(Unwrap(build_config), Unwrap(bootloader_cmd))
        /\ \A other \in WorkspaceConfigs :
               other # Unwrap(build_config) =>
                   other.target_dir # Unwrap(build_config).target_dir

\* C22 (amended): the target directory of the bootloader build is
\* <target_directory>/bootimage/<bootloader name> and the sysroot path lies
\* inside it; two configurations of one workspace have the same target directory
\* exactly when their bootloader packages have the same name, also when they
\* differ in kernel binary, features or build-std.
C22_DirsDistinctByBootloaderName ==
    bootloader_cmd # {} =>
        /\ Namespaced(Unwrap(build_config), Unwrap(bootloader_cmd))
        /\ \A other \in WorkspaceConfigs :
               other.target_dir = Unwrap(build_config).target_dir
                   <=> other.bootloader_name = Unwrap(build_config).bootloader_name

\* The command of the bootloader fork has been built in a workspace that also
\* holds the bootloader crate, whose target directory is another one.
C22_Witness ==
    /\ bootloader_cmd # {}
    /\ bootloader_pkg = {BootloaderFork}
    /\ Unwrap(build_config).target_dir = "os/target/bootimage/bootloader_fork"
    /\ \E other \in WorkspaceConfigs : other.target_dir = "os/target/bootimage/bootloader"

\* C23: the command that build_command returns does not depend on the RUSTFLAGS
\* of the caller: for every value of it the command has the same program, the
\* same arguments and the same environment, in which RUSTFLAGS is empty, KERNEL
\* is the kernel binary path and KERNEL_MANIFEST is the kernel manifest path.
C23_RustflagsDoNotReachTheBuild ==
    bootloader_cmd # {} =>
        /\ \A r \in RustFlags :
               build_command(Unwrap(build_config), [ambient_env EXCEPT !.RUSTFLAGS = r])
                   = Unwrap(bootloader_cmd)
        /\ Unwrap(bootloader_cmd).env.RUSTFLAGS = {""}
        /\ Unwrap(bootloader_cmd).env.KERNEL = {KernelBinPath}
        /\ Unwrap(bootloader_cmd).env.KERNEL_MANIFEST = {KernelManifestPath}

\* The caller has flags of the kernel build in RUSTFLAGS and the command has
\* been built with an empty RUSTFLAGS.
C23_Witness ==
    /\ bootloader_cmd # {}
    /\ ambient_env.RUSTFLAGS = {"-C target-cpu=native"}
    /\ Unwrap(bootloader_cmd).env.RUSTFLAGS = {""}

\* ---------------------------------------------------------------------------
\* C24: create_disk_image() reports its failures by step, in order: an absent
\* toolset is LlvmToolsNotFound, a toolset without the copy tool is
\* LlvmObjcopyNotFound, and only then a tool that exits unsuccessfully is
\* ObjcopyFailed carrying the tool's standard error; llvm-objcopy is not
\* invoked, and the image is not touched, when either lookup fails.
ObjcopyInvoked == \E i \in 1..Len(d_ops) : d_ops[i] = "objcopy"

C24_FailuresReportedByStep ==
    /\ (d_pc = "done" /\ llvm_tools = "NotFound")
            => /\ d_ret = Failed("LlvmToolsNotFound")
               /\ d_ops = <<"llvm_tools">>
    /\ (d_pc = "done" /\ llvm_tools = "NoObjcopy")
            => /\ d_ret = Failed("LlvmObjcopyNotFound")
               /\ d_ops = <<"llvm_tools", "tool">>
    /\ d_ret \in {Failed("LlvmToolsNotFound"), Failed("LlvmObjcopyNotFound")}
            => ~ObjcopyInvoked /\ objcopy_output = {} /\ objcopy_len = {}
    /\ ObjcopyInvoked
            => llvm_tools = "Complete" /\ SubSeq(d_ops, 1, 3) = <<"llvm_tools", "tool", "objcopy">>
    /\ \A out \in objcopy_output :
            ~out.success => /\ d_ret = Failed("ObjcopyFailed:" \o out.stderr)
                            /\ d_ops = <<"llvm_tools", "tool", "objcopy">>
                            /\ objcopy_len = {}

C24_Witness ==
    /\ d_pc = "done"
    /\ llvm_tools = "Complete"
    /\ d_ret = Failed("ObjcopyFailed:llvm-objcopy: error: not an ELF file")
    /\ d_ops = <<"llvm_tools", "tool", "objcopy">>

\* ---------------------------------------------------------------------------
\* C25: create_iso_image() creates its staging directory idempotently: a
\* staging directory, or a boot/grub directory under it, that already exists
\* never fails the call, so a call that follows a successful call on the same
\* directory does not fail on what was left behind; the image is what
\* grub-mkrescue wrote, without padding to 512 bytes; and an unsuccessful exit
\* of grub-mkrescue is MkResuceFailed carrying the tool's standard error.
DirErrors == {Failed("Io:failed to create isodir"), Failed("Io:failed to create boot/grub")}

C25_IsoStagingIsIdempotent ==
    /\ i_at_call.isodir = "dir" => i_ret # Failed("Io:failed to create isodir")
    /\ (i_at_call.isodir = "dir" /\ i_at_call.grub_dir) => i_ret \notin DirErrors
    /\ \A k \in 1..Len(i_rets) : i_rets[k] = Done => i_ret \notin DirErrors
    /\ (i_pc = "done" /\ i_ret = Done)
            => /\ \E out \in mkrescue_output : out.success /\ iso = out.len
               /\ grub_cfg = {GrubCfg(i_args.bin_name)}
               /\ kernel_elf = {i_args.elf_len}
    /\ \A out \in mkrescue_output :
            ~out.success => i_ret = Failed("MkResuceFailed:" \o out.stderr)

C25_Witness ==
    /\ i_pc = "done"
    /\ i_rets = <<Done>>
    /\ i_ret = Done
    /\ iso = {700}
    /\ 700 % BLOCK_SIZE # 0

\* ---------------------------------------------------------------------------
\* C26 as stated: over a build stream of JSON records, 'bootloader has multiple
\* executables' is raised when the `executable` records name more than one
\* distinct path, and a stream whose `executable` records all name the same
\* path resolves to that path.
ExecutablePathsOf(lines) ==
    LET found == ExecutableRecords(lines)
    IN  UNION {found[k].executable : k \in 1..Len(found)}

C26_SamePathResolves ==
    (Resolved /\ IsRecordStream(stdout_lines)) =>
        LET named == ExecutablePathsOf(stdout_lines)
        IN  /\ Cardinality(named) > 1 =>
                  a_ret = Failed("BootloaderInvalid:bootloader has multiple executables")
            /\ Cardinality(named) = 1 =>
                  (a_ret = Done /\ bootloader_elf_path = named)

\* C26 as the code has it: 'bootloader has multiple executables' is raised as
\* soon as a second record has an `executable`, whether it names another path
\* or repeats the first; only a stream with exactly one such record resolves to
\* its path.
C26_SecondRecordIsMultiple ==
    (Resolved /\ IsRecordStream(stdout_lines)) =>
        LET named == ExecutablePathsOf(stdout_lines)
            found == ExecutableRecords(stdout_lines)
        IN  /\ Cardinality(named) > 1 =>
                  a_ret = Failed("BootloaderInvalid:bootloader has multiple executables")
            /\ (Cardinality(named) = 1 /\ Len(found) > 1) =>
                  a_ret = Failed("BootloaderInvalid:bootloader has multiple executables")
            /\ (Cardinality(named) = 1 /\ Len(found) = 1) =>
                  (a_ret = Done /\ bootloader_elf_path = named)

\* Two records name the same path and the resolution has failed.
C26_Witness ==
    /\ Resolved
    /\ IsRecordStream(stdout_lines)
    /\ Len(ExecutableRecords(stdout_lines)) = 2
    /\ Cardinality(ExecutablePathsOf(stdout_lines)) = 1
    /\ a_ret = Failed("BootloaderInvalid:bootloader has multiple executables")

\* ---------------------------------------------------------------------------
\* C27: the project metadata is memoized per Builder: each Builder invokes the
\* provider successfully at most once; every call after that invocation
\* returns the value it stored, without asking the provider, whatever the
\* project has become; a failed invocation stores nothing, so the next call
\* asks the provider again; and the value a Builder holds is the one its own
\* invocation obtained, never one that another Builder obtained.
Fetched(b) == {k \in 1..Len(c_hist[b]) : c_hist[b][k].invoked /\ c_hist[b][k].err = ""}

C27_MetadataMemoizedPerBuilder ==
    \A b \in Builders :
        /\ Cardinality(Fetched(b)) <= 1
        /\ \A j \in Fetched(b) : \A k \in (j + 1)..Len(c_hist[b]) :
              /\ ~c_hist[b][k].invoked
              /\ c_hist[b][k].err = ""
              /\ c_hist[b][k].result = c_hist[b][j].result
        /\ \A k \in 1..Len(c_hist[b]) :
              c_hist[b][k].err # "" =>
                  /\ c_hist[b][k].invoked
                  /\ c_hist[b][k].result = {}
                  /\ k < Len(c_hist[b]) => c_hist[b][k + 1].invoked
        /\ \A self \in builders[b] :
              /\ Fetched(b) = {} => self.project_metadata = {}
              /\ \A j \in Fetched(b) :
                    /\ self.project_metadata = c_hist[b][j].result
                    /\ self.project_metadata =
                          {Metadata(self.manifest_path, c_hist[b][j].at)}

\* A Builder failed to fetch, fetched at the next call, and answered its third
\* call from the stored value after the project had changed; the other Builder
\* exists and holds nothing.
C27_Witness ==
    \E b, c \in Builders :
        /\ b # c
        /\ Len(c_hist[b]) = 3
        /\ c_hist[b][1].err = "CargoMetadata"
        /\ Fetched(b) = {2}
        /\ c_hist[b][2].at = 1
        /\ c_hist[b][3].at = 2
        /\ c_hist[b][3].result = {Metadata(Unwrap(builders[b]).manifest_path, 1)}
        /\ builders[c] # {}
        /\ Unwrap(builders[c]).manifest_path = Unwrap(builders[b]).manifest_path
        /\ Unwrap(builders[c]).project_metadata = {}

\* ---------------------------------------------------------------------------
\* C28: create_bootimage() makes its steps strictly in order: the build
\* configuration, the bootloader build, the same build with JSON output, the
\* resolution of the single executable, llvm-objcopy, the padding.  A step runs
\* only if every earlier step succeeded; the padding works on the file that
\* llvm-objcopy wrote; and Ok is returned only if every step succeeded.
StepOrder == <<"metadata", "config", "build", "json", "disk">>

ConfigSucceeded == m_pc = "done" /\ m_ret = Done /\ build_config # {}

BuildRan == bootloader_cmd # {}

BuildSucceeded == BuildRan /\ Len(b_steps) >= 3 /\ b_steps[3] = "build"

JsonBuildRan == a_pc # "build_json"

ExecutableResolved ==
    /\ a_pc = "done"
    /\ a_ret = Done
    /\ bootloader_elf_path # {}
    /\ Len(ExecutableRecords(stdout_lines)) = 1

PaddingRan == \E k \in 1..Len(d_ops) : d_ops[k] = "open"

ObjcopySucceeded == \E out \in objcopy_output : out.success

C28_StepsInOrder ==
    /\ b_steps = SubSeq(StepOrder, 1, Len(b_steps))
    /\ m_pc # "kernel_pkg" => (Len(b_steps) >= 1 /\ b_steps[1] = "metadata")
    /\ BuildRan => ConfigSucceeded
    /\ JsonBuildRan => (ConfigSucceeded /\ BuildSucceeded)
    /\ d_ops # <<>> => (ConfigSucceeded /\ BuildSucceeded /\ ExecutableResolved)
    /\ ObjcopyInvoked => SubSeq(d_ops, 1, 3) = <<"llvm_tools", "tool", "objcopy">>
    /\ PaddingRan => /\ ObjcopySucceeded
                     /\ SubSeq(d_ops, 1, 4) = <<"llvm_tools", "tool", "objcopy", "open">>
                     /\ objcopy_len # {}
                     /\ d_pc = "set_len" => {file_size} = objcopy_len
    /\ b_ret = Done =>
          /\ b_pc = "done"
          /\ b_steps = StepOrder
          /\ ConfigSucceeded /\ BuildSucceeded /\ ExecutableResolved /\ ObjcopySucceeded
          /\ d_ret = Done
          /\ d_ops = <<"llvm_tools", "tool", "objcopy", "open", "metadata", "set_len">>
          /\ \A n \in objcopy_len : image = {n + Padding(n)}
    /\ (b_pc = "done" /\ b_ret # Done) => b_steps # StepOrder

\* create_bootimage() has returned Ok and the image llvm-objcopy wrote with 700
\* bytes has 1024.
C28_Witness ==
    /\ b_pc = "done"
    /\ b_ret = Done
    /\ objcopy_len = {700}
    /\ image = {1024}

\* ---------------------------------------------------------------------------
\* C29: in a test run, when the emulator exits on its own after wait_timeout
\* reported the timeout and before kill is issued, run() still returns the
\* Timeout verdict (TestTimedOut) with the process reaped, whether or not the
\* kill of the process that has already exited fails.
ExitedAfterTimeout == is_test /\ wait_result = "None" /\ exit_status # {}

C29_ExitDuringKillStillTimesOut ==
    (pc = "done" /\ ExitedAfterTimeout) => (ret = Err("TestTimedOut") /\ child = "reaped")

\* ---------------------------------------------------------------------------
\* C30: a test run returns Ok(0) only if the raw exit code of the emulator is
\* the configured success code, or no success code is configured and the raw
\* code is 0; with a success code other than 0 configured, a raw code 0 is not
\* reported as success.
C30_NoFalsePass ==
    (pc = "done" /\ is_test) =>
        /\ ret = Ok(0) =>
              \/ test_success_exit_code # {} /\ exit_status = test_success_exit_code
              \/ test_success_exit_code = {} /\ exit_status = {0}
        /\ (test_success_exit_code \notin {{}, {0}} /\ exit_status = {0}) => ret # Ok(0)

\* A test run with the success code 5 configured has returned after the
\* emulator exited with the raw code 0, and the result is not Ok(0).
C30_Witness ==
    /\ pc = "done"
    /\ is_test
    /\ wait_result = "Some"
    /\ test_success_exit_code = {5}
    /\ exit_status = {0}
    /\ ret = Ok(1)

=============================================================================
